---- MODULE Spec2Model ----
(***************************************************************************)
(* Model of ttl_cleaner.py (class TTLCleaner): parsing of a Turtle/SKOS    *)
(* document into concept records, deduplication, the optional hierarchy    *)
(* autofix, the validation families, and the serializer.                   *)
(*                                                                         *)
(* Text is a sequence of tokens.  A token is one character of punctuation  *)
(* or whitespace, one digit, or an atom standing for a run of letters      *)
(* ("http", "skos", "Concept", a word of a label).  A document is a        *)
(* sequence of lines (content.split('\n')), a line a sequence of tokens.   *)
(* None is the empty sequence.                                             *)
(***************************************************************************)
EXTENDS Integers, Sequences, FiniteSets, TLC

None == << >>

\* ------------------------------------------------------------------------
\* Token classes
\* ------------------------------------------------------------------------
Digits == {"0", "1", "2", "3", "4", "5", "6", "7", "8", "9"}

\* \s of the regular expressions and of str.strip()/str.split()
WS == {" ", "\n"}

\* tokens outside the character class [a-zA-Z0-9_:/-] of the subject regex
NonNameTokens == {"<", ">", ".", ",", ";", "\"", "@", "#", " ", "\n", "@base", "Ã¤", "ä"}

\* str.startswith('http') on the first token
IsHttpAtom(t) == t \in {"http", "https"}

\* the atoms that begin with the letters "Concept" (regex skos:Concept has no
\* right anchor, so it also matches skos:ConceptScheme)
StartsWithConcept == {"Concept", "ConceptScheme"}

\* ------------------------------------------------------------------------
\* String helpers over token sequences
\* ------------------------------------------------------------------------
Last(s) == s[Len(s)]

RECURSIVE LStrip(_)
LStrip(s) == IF s # << >> /\ Head(s) \in WS THEN LStrip(Tail(s)) ELSE s

RECURSIVE RStrip(_)
RStrip(s) == IF s # << >> /\ Last(s) \in WS THEN RStrip(SubSeq(s, 1, Len(s) - 1)) ELSE s

\* str.strip()
Strip(s) == RStrip(LStrip(s))

\* str.rstrip(chars)
RECURSIVE RStripSet(_, _)
RStripSet(s, cs) ==
    IF s # << >> /\ Last(s) \in cs THEN RStripSet(SubSeq(s, 1, Len(s) - 1), cs) ELSE s

\* str.strip(chars)
RECURSIVE LStripSet(_, _)
LStripSet(s, cs) == IF s # << >> /\ Head(s) \in cs THEN LStripSet(Tail(s), cs) ELSE s

StripSet(s, cs) == RStripSet(LStripSet(s, cs), cs)

Contains(s, t) == \E i \in 1..Len(s) : s[i] = t

StartsWith(s, p) == Len(s) >= Len(p) /\ SubSeq(s, 1, Len(p)) = p

EndsWith(s, p) == Len(s) >= Len(p) /\ SubSeq(s, Len(s) - Len(p) + 1, Len(s)) = p

\* least element of a non-empty set of positions
First(S) == CHOOSE x \in S : \A y \in S : x <= y

\* index of the first occurrence of token t at or after position i, 0 if none
IndexFrom(s, t, i) ==
    LET hits == { k \in i..Len(s) : s[k] = t }
    IN IF hits = {} THEN 0 ELSE First(hits)

\* first position at or after i where the token sequence p begins, 0 if none
FindSub(s, p, i) ==
    LET hits == { k \in i..(Len(s) - Len(p) + 1) : SubSeq(s, k, k + Len(p) - 1) = p }
    IN IF hits = {} THEN 0 ELSE First(hits)

\* 'p' in s
HasSub(s, p) == FindSub(s, p, 1) # 0

\* position after the run of whitespace that starts at i
SkipWs(s, i) ==
    LET stops == { k \in i..Len(s) : s[k] \notin WS }
    IN IF i > Len(s) THEN i ELSE IF stops = {} THEN Len(s) + 1 ELSE First(stops)

\* sep.join(parts)
RECURSIVE Join(_, _)
Join(parts, sep) ==
    IF parts = << >> THEN << >>
    ELSE IF Len(parts) = 1 THEN parts[1]
    ELSE parts[1] \o sep \o Join(Tail(parts), sep)

\* str.split(sep) for a one-token separator
RECURSIVE Split(_, _)
Split(s, sep) ==
    LET i == IndexFrom(s, sep, 1) IN
    IF i = 0 THEN << s >>
    ELSE << SubSeq(s, 1, i - 1) >> \o Split(SubSeq(s, i + 1, Len(s)), sep)

\* ' '.join(s.split()) and re.sub(r'\s+', ' ', s).strip(): runs of whitespace
\* become one space, the ends are trimmed
RECURSIVE CollapseWs(_)
CollapseWs(s) ==
    LET t == LStrip(s) IN
    IF t = << >> THEN << >>
    ELSE LET r == CollapseWs(Tail(t)) IN
         IF Len(t) > 1 /\ t[2] \in WS
         THEN IF r = << >> THEN << t[1] >> ELSE << t[1], " " >> \o r
         ELSE << t[1] >> \o r

\* members of a sequence, in order, that satisfy a membership test
RECURSIVE SelectIn(_, _)
SelectIn(s, set) ==
    IF s = << >> THEN << >>
    ELSE IF Head(s) \in set THEN << Head(s) >> \o SelectIn(Tail(s), set)
    ELSE SelectIn(Tail(s), set)

Range(s) == { s[i] : i \in 1..Len(s) }

\* list with later repetitions removed (seen-set loops of the source)
RECURSIVE Dedup(_)
Dedup(s) ==
    IF s = << >> THEN << >>
    ELSE LET d == Dedup(SubSeq(s, 1, Len(s) - 1)) IN
         IF Last(s) \in Range(d) THEN d ELSE Append(d, Last(s))

\* concatenation of f[1], ..., f[n]
RECURSIVE Flatten(_)
Flatten(seqs) == IF seqs = << >> THEN << >> ELSE Head(seqs) \o Flatten(Tail(seqs))

\* ------------------------------------------------------------------------
\* URI canonicalizer
\* ------------------------------------------------------------------------
\* "http://data.europa.eu/esco/skill/"
EscoNamespace ==
    << "http", ":", "/", "/", "data", ".", "europa", ".", "eu", "/", "esco", "/", "skill", "/" >>

\* "http://example.org/"
FallbackNamespace == << "http", ":", "/", "/", "example", ".", "org", "/" >>

\* value[1:-1] when the value starts with '<' and ends with '>'
Unbracket(u) ==
    IF Len(u) >= 2 /\ Head(u) = "<" /\ Last(u) = ">" THEN SubSeq(u, 2, Len(u) - 1) ELSE u

StartsWithHttp(u) == u # << >> /\ IsHttpAtom(Head(u))

\* TTLCleaner._clean_uri
clean_uri(raw, base) ==
    LET uri == Unbracket(Strip(raw)) IN
    IF StartsWithHttp(uri) THEN uri
    ELSE IF base # None /\ ~Contains(uri, ":")
         THEN RStripSet(base, {"/"}) \o << "/" >> \o uri
    ELSE IF Contains(uri, ":")
         THEN LET i == IndexFrom(uri, ":", 1)
                  prefix == SubSeq(uri, 1, i - 1)
                  local == SubSeq(uri, i + 1, Len(uri))
              IN IF prefix = << "esco" >>
                 THEN EscoNamespace \o local
                 ELSE FallbackNamespace \o prefix \o << "/" >> \o local
    ELSE IF base # None
         THEN RStripSet(base, {"/"}) \o << "/" >> \o uri
    ELSE EscoNamespace \o uri

\* a classification that calls every change a normalization
AlwaysNormalization(raw_uri, cleaned_uri, base) == [is_fix |-> FALSE, msg |-> "URI normalized"]

\* TTLCleaner._classify_uri_change: (is_fix, message); the message is
\* modelled by its fixed leading text, "" is the empty message
classify_uri_change(raw_uri, cleaned_uri, base) ==
    LET raw == Strip(raw_uri)
        bracketed == Len(raw) >= 2 /\ Head(raw) = "<" /\ Last(raw) = ">"
        raw_inner == IF bracketed THEN SubSeq(raw, 2, Len(raw) - 1) ELSE raw
    IN
    IF raw # << >> /\ Head(raw) = "<" /\ Last(raw) = ">" /\ StartsWithHttp(raw_inner)
    THEN [is_fix |-> FALSE, msg |-> "URI normalized (angle brackets removed)"]
    ELSE IF base # None /\ ~StartsWithHttp(raw_inner) /\ ~Contains(raw_inner, ":")
    THEN LET expected_abs ==
                 RStripSet(base, {"/"}) \o << "/" >> \o StripSet(raw_inner, {"<", ">"})
         IN IF expected_abs = cleaned_uri
            THEN [is_fix |-> FALSE, msg |-> ""]
            ELSE [is_fix |-> FALSE, msg |-> "URI normalized using @base"]
    ELSE IF Contains(raw_inner, ":") /\ ~StartsWithHttp(raw_inner)
    THEN [is_fix |-> TRUE, msg |-> "URI fixed: expanded prefix"]
    ELSE IF ~StartsWithHttp(raw_inner) /\ base = None
    THEN [is_fix |-> TRUE, msg |-> "URI fixed: added default namespace"]
    ELSE IF raw # raw_uri
    THEN [is_fix |-> FALSE, msg |-> "URI normalized (whitespace trimmed)"]
    ELSE IF raw # cleaned_uri
    THEN [is_fix |-> FALSE, msg |-> "URI normalized"]
    ELSE [is_fix |-> FALSE, msg |-> ""]

\* TTLCleaner._extract_uris_from_property: re.findall(r'<([^>]+)>', prop),
\* each wrapped in angle brackets again
RECURSIVE extract_uris_from_property(_)
extract_uris_from_property(prop) ==
    LET i == IndexFrom(prop, "<", 1)
        j == IF i = 0 THEN 0 ELSE IndexFrom(prop, ">", i + 1)
    IN IF i = 0 \/ j = 0 THEN << >>
       ELSE IF j = i + 1
            THEN extract_uris_from_property(SubSeq(prop, i + 1, Len(prop)))
       ELSE << SubSeq(prop, i, j) >>
            \o extract_uris_from_property(SubSeq(prop, j + 1, Len(prop)))

\* TTLCleaner._is_valid_uri: urlparse gives a scheme and a network location
is_valid_uri(uri) ==
    LET s == StripSet(uri, {"<", ">"})
        i == IndexFrom(s, ":", 1)
    IN /\ i > 1
       /\ s[1] \notin NonNameTokens \cup Digits \cup {"/", "-", "_", ":"}
       /\ \A k \in 1..(i - 1) : s[k] \notin (NonNameTokens \ {"."}) \cup {"/", "_"}
       /\ Len(s) >= i + 3
       /\ s[i + 1] = "/" /\ s[i + 2] = "/"
       /\ s[i + 3] \notin {"/", "?", "#"}

\* ------------------------------------------------------------------------
\* Code tokens (hierarchy by identifier code)
\* ------------------------------------------------------------------------
\* start of the longest suffix of s that matches \d+(?:-\d+)*, scanning from
\* the end; Len(s)+1 when s does not end with a digit
RECURSIVE CodeStart(_, _)
CodeStart(s, i) ==
    \* s[i..] is a match and i > 1: try to extend to the left
    IF i > 1 /\ s[i - 1] \in Digits THEN CodeStart(s, i - 1)
    ELSE IF i > 2 /\ s[i - 1] = "-" /\ s[i - 2] \in Digits THEN CodeStart(s, i - 2)
    ELSE i

\* TTLCleaner._extract_numeric_code; None when there is no code token
extract_numeric_code(uri_or_token) ==
    IF uri_or_token = << >> THEN None
    ELSE LET s0 == Unbracket(Strip(uri_or_token))
             s1 == IF Contains(s0, "/")
                   THEN Last(Split(RStripSet(s0, {"/"}), "/"))
                   ELSE s0
         IN IF s1 = << >> \/ Last(s1) \notin Digits THEN None
            ELSE SubSeq(s1, CodeStart(s1, Len(s1)), Len(s1))

\* code[:k] for k = len-1 .. 1
RECURSIVE DigitPrefixes(_, _)
DigitPrefixes(code, k) ==
    IF k < 1 THEN << >> ELSE << SubSeq(code, 1, k) >> \o DigitPrefixes(code, k - 1)

\* '-'.join(parts[:i]) for i = n-1 .. 1
RECURSIVE SegmentPrefixes(_, _)
SegmentPrefixes(parts, i) ==
    IF i < 1 THEN << >>
    ELSE << Join(SubSeq(parts, 1, i), << "-" >>) >> \o SegmentPrefixes(parts, i - 1)

IsDigitStr(s) == s # << >> /\ \A i \in 1..Len(s) : s[i] \in Digits

\* a prefix list that holds the code itself
PrefixesWithSelf(code) == IF code = None THEN << >> ELSE << code >>

\* TTLCleaner._code_prefixes: parent codes, longest first
code_prefixes(code) ==
    IF code = None THEN << >>
    ELSE LET prefixes ==
                 IF Contains(code, "-")
                 THEN LET parts == Split(code, "-")
                          first == parts[1]
                      IN SegmentPrefixes(parts, Len(parts) - 1)
                         \o (IF IsDigitStr(first) /\ Len(first) > 1
                             THEN DigitPrefixes(first, Len(first) - 1) ELSE << >>)
                 ELSE IF IsDigitStr(code) /\ Len(code) > 1
                      THEN DigitPrefixes(code, Len(code) - 1) ELSE << >>
         IN Dedup(prefixes)

\* ------------------------------------------------------------------------
\* Text normalizer.  An operation of the source that changes counters or the
\* change log returns a record [val, inc, log]: its value, the sequence of
\* stats keys it increments (once per occurrence) and the change-log entries
\* it appends.
\* ------------------------------------------------------------------------
LogEntry(kind, subject) == [kind |-> kind, subject |-> subject]

\* the replacement table of _clean_label/_clean_text_field, on a token
FixEncodingToken(t) == IF t = "Ã¤" THEN "ä" ELSE t

FixEncoding(s) == [i \in 1..Len(s) |-> FixEncodingToken(s[i])]

\* TTLCleaner._clean_label
clean_label(label) ==
    IF label = << >> THEN [val |-> None, inc |-> << >>, log |-> << >>]
    ELSE LET replaced == FixEncoding(label)
             encFixed == replaced # label
             collapsed == CollapseWs(replaced)
             wsOnly == collapsed # replaced /\ replaced = label
             empty == Strip(collapsed) = << >>
         IN [val |-> IF empty THEN None ELSE collapsed,
             inc |-> (IF encFixed THEN << "encoding_issues_fixed" >> ELSE << >>)
                     \o (IF empty THEN << "empty_labels_removed" >> ELSE << >>),
             log |-> (IF encFixed THEN << LogEntry("Label cleaned", Strip(label)) >> ELSE << >>)
                     \o (IF wsOnly
                         THEN << LogEntry("Label normalized (whitespace)", Strip(label)) >>
                         ELSE << >>)]

\* re.sub(p + '(?!...)', p + ' ', text): a space is put after every token p
\* unless the next token is whitespace, or (atEnd = FALSE) p is the last
\* token, or the next token is in the set except
RECURSIVE SpaceAfter(_, _, _, _)
SpaceAfter(s, p, atEnd, except) ==
    IF s = << >> THEN << >>
    ELSE LET rest == SpaceAfter(Tail(s), p, atEnd, except) IN
         IF Head(s) = p
            /\ (IF Len(s) = 1 THEN atEnd ELSE s[2] \notin WS \cup except)
         THEN << p, " " >> \o rest
         ELSE << Head(s) >> \o rest

\* the six punctuation substitutions shared by _clean_text_field and
\* _fix_comma_spacing, in the order of the source
PunctuationSpacing(text) ==
    LET t1 == SpaceAfter(text, ",", TRUE, {})
        t2 == SpaceAfter(t1, ".", FALSE, Digits)
        t3 == SpaceAfter(t2, ";", TRUE, {})
        t4 == SpaceAfter(t3, ":", FALSE, {})
        t5 == SpaceAfter(t4, "!", FALSE, {})
    IN SpaceAfter(t5, "?", FALSE, {})

\* TTLCleaner._clean_text_field
clean_text_field(text) ==
    IF text = << >> THEN [val |-> None, inc |-> << >>, log |-> << >>]
    ELSE LET cleaned == CollapseWs(PunctuationSpacing(FixEncoding(text)))
             changed == cleaned # text
             empty == cleaned = << >>
         IN [val |-> IF empty THEN None ELSE cleaned,
             inc |-> (IF changed THEN << "text_fields_cleaned" >> ELSE << >>)
                     \o (IF empty THEN << "empty_labels_removed" >> ELSE << >>),
             log |-> IF changed
                     THEN << LogEntry("Text field cleaned", Strip(text)) >> ELSE << >>]

\* re.sub(r'\s{2,}', ' ', text): a run of two or more whitespace tokens
\* becomes one space, a single whitespace token stays as it is
RECURSIVE CollapseRuns(_)
CollapseRuns(s) ==
    IF s = << >> THEN << >>
    ELSE IF Head(s) \in WS /\ Len(s) > 1 /\ s[2] \in WS
         THEN << " " >> \o CollapseRuns(LStrip(s))
    ELSE << Head(s) >> \o CollapseRuns(Tail(s))

\* a text that is written as it is
NoCommaFix(text) == [val |-> text, inc |-> << >>, log |-> << >>]

\* TTLCleaner._fix_comma_spacing (the second definition, which replaces the
\* first one of the class body)
fix_comma_spacing(text) ==
    IF text = << >> THEN [val |-> text, inc |-> << >>, log |-> << >>]
    ELSE LET fixed == Strip(CollapseRuns(PunctuationSpacing(text)))
             changed == fixed # text
         IN [val |-> fixed,
             inc |-> IF changed THEN << "comma_fixes", "text_fields_cleaned" >> ELSE << >>,
             log |-> IF changed
                     THEN << LogEntry("Comma spacing fixed", Strip(text)) >> ELSE << >>]

\* ------------------------------------------------------------------------
\* Document-level metadata
\* ------------------------------------------------------------------------
\* content as one string again
Content(lines) == Join(lines, << "\n" >>)

\* re.search(r'(@base\s+<[^>]+>\s*\.)', content) from position i on:
\* [decl, uri] of the first match, None when there is none
RECURSIVE BaseMatch(_, _)
BaseMatch(s, i) ==
    LET k == IndexFrom(s, "@base", i) IN
    IF k = 0 THEN None
    ELSE LET e == SkipWs(s, k + 1)
             j == IF e > k + 1 /\ e <= Len(s) /\ s[e] = "<" THEN IndexFrom(s, ">", e + 1) ELSE 0
             f == IF j > e + 1 THEN SkipWs(s, j + 1) ELSE 0
         IN IF f # 0 /\ f <= Len(s) /\ s[f] = "."
            THEN [decl |-> SubSeq(s, k, f), uri |-> SubSeq(s, e + 1, j - 1)]
            ELSE BaseMatch(s, k + 1)

\* TTLCleaner._extract_base_uri: the returned base URI (None without a
\* match) and the value of self.base_declaration afterwards
extract_base_uri(lines, old_declaration) ==
    LET m == BaseMatch(Content(lines), 1) IN
    IF m = None
    THEN [base_uri |-> None, base_declaration |-> old_declaration]
    ELSE [base_uri |-> m.uri, base_declaration |-> m.decl]

IsComment(line) == line # << >> /\ Head(line) = "#"

SchemeMarker == << "a", " ", "skos", ":", "ConceptScheme" >>

SchemeJoiner == << "\n", " ", " ", " ", " " >>

\* TTLCleaner._extract_metadata: the loop over the lines from index i with
\* the local state (current_block, in_concept_scheme); yields the value of
\* self.concept_scheme afterwards
RECURSIVE MetadataLoop(_, _, _, _, _)
MetadataLoop(lines, i, current_block, in_concept_scheme, scheme) ==
    IF i > Len(lines) THEN scheme
    ELSE LET line == Strip(lines[i]) IN
         IF line = << >> \/ IsComment(line)
         THEN MetadataLoop(lines, i + 1, current_block, in_concept_scheme, scheme)
         ELSE IF HasSub(line, SchemeMarker)
         THEN MetadataLoop(lines, i + 1, << line >>, TRUE, scheme)
         ELSE IF in_concept_scheme
         THEN IF EndsWith(line, << " ", "." >>)
              THEN MetadataLoop(lines, i + 1, << >>, FALSE,
                                Join(Append(current_block, line), SchemeJoiner))
              ELSE MetadataLoop(lines, i + 1, Append(current_block, line), TRUE, scheme)
         ELSE MetadataLoop(lines, i + 1, current_block, in_concept_scheme, scheme)

extract_metadata(lines, old_scheme) == MetadataLoop(lines, 1, << >>, FALSE, old_scheme)

\* ------------------------------------------------------------------------
\* Lexical segmenter
\* ------------------------------------------------------------------------
\* end of group 1 of ^(<[^>]+>|[a-zA-Z0-9_:/-]+) on a line, 0 without match
RECURSIVE NameRunEnd(_, _)
NameRunEnd(line, i) ==
    IF i <= Len(line) /\ line[i] \notin NonNameTokens THEN NameRunEnd(line, i + 1) ELSE i - 1

SubjectEnd(line) ==
    IF line = << >> THEN 0
    ELSE IF Head(line) = "<"
         THEN LET j == IndexFrom(line, ">", 2) IN IF j > 2 THEN j ELSE 0
    ELSE NameRunEnd(line, 1)

\* \s+a\s+skos:<type...> from position i of the line
TypeDeclAt(line, i, types) ==
    LET a == SkipWs(line, i)
        t == SkipWs(line, a + 1)
    IN /\ a > i /\ a <= Len(line) /\ line[a] = "a"
       /\ t > a + 1 /\ t + 2 <= Len(line)
       /\ line[t] = "skos" /\ line[t + 1] = ":" /\ line[t + 2] \in types

\* re.match(r'^(<[^>]+>|[a-zA-Z0-9_:/-]+)\s+a\s+skos:Concept', line): the
\* length of group 1, 0 when the line does not start a concept
ConceptStart(line) ==
    LET e == SubjectEnd(line) IN
    IF e > 0 /\ TypeDeclAt(line, e + 1, StartsWithConcept) THEN e ELSE 0

\* the lines of the document without blank lines and full-line comments
RECURSIVE StrippedLines(_)
StrippedLines(lines) ==
    IF lines = << >> THEN << >>
    ELSE LET line == Strip(Head(lines)) IN
         IF line # << >> /\ ~IsComment(line)
         THEN << line >> \o StrippedLines(Tail(lines))
         ELSE StrippedLines(Tail(lines))

\* a loop that drops the block the input ends in
RECURSIVE DropUnterminated(_, _, _)
DropUnterminated(lines, i, current_block) ==
    IF i > Len(lines) THEN << >>
    ELSE LET line == lines[i] IN
         IF ConceptStart(line) > 0
         THEN (IF current_block # << >> THEN << current_block >> ELSE << >>)
              \o DropUnterminated(lines, i + 1, << line >>)
         ELSE IF Strip(line) = << "." >> /\ current_block # << >>
         THEN << Append(current_block, line) >> \o DropUnterminated(lines, i + 1, << >>)
         ELSE IF current_block # << >>
         THEN DropUnterminated(lines, i + 1, Append(current_block, line))
         ELSE DropUnterminated(lines, i + 1, current_block)

\* the loop of _split_into_concept_blocks; a block is kept as its sequence
\* of lines ('\n'.join(current_block) in the source)
RECURSIVE BlockLoop(_, _, _)
BlockLoop(lines, i, current_block) ==
    IF i > Len(lines)
    THEN IF current_block # << >> THEN << current_block >> ELSE << >>
    ELSE LET line == lines[i] IN
         IF ConceptStart(line) > 0
         THEN (IF current_block # << >> THEN << current_block >> ELSE << >>)
              \o BlockLoop(lines, i + 1, << line >>)
         ELSE IF Strip(line) = << "." >> /\ current_block # << >>
         THEN << Append(current_block, line) >> \o BlockLoop(lines, i + 1, << >>)
         ELSE IF current_block # << >>
         THEN BlockLoop(lines, i + 1, Append(current_block, line))
         ELSE BlockLoop(lines, i + 1, current_block)

\* TTLCleaner._split_into_concept_blocks
split_into_concept_blocks(lines) == BlockLoop(StrippedLines(lines), 1, << >>)

\* ------------------------------------------------------------------------
\* Concept parser
\* ------------------------------------------------------------------------
\* two lowercase letters ([a-z]{2})
LangAtoms == {"en", "de"}

LabelPreds == << "prefLabel", "altLabel" >>

NotePreds ==
    << "definition", "note", "scopeNote", "editorialNote", "historyNote", "changeNote",
       "example" >>

\* the skip_patterns of _parse_multiline_properties
TextPreds == LabelPreds \o NotePreds

\* match of "([^"]+)"(?:@([a-z]{2}))? that starts at position i
QuotedAt(s, i) ==
    LET j == IF i <= Len(s) /\ s[i] = "\"" THEN IndexFrom(s, "\"", i + 1) ELSE 0 IN
    IF j > i + 1
    THEN LET tagged == j + 2 <= Len(s) /\ s[j + 1] = "@" /\ s[j + 2] \in LangAtoms IN
         [ok |-> TRUE, label |-> SubSeq(s, i + 1, j - 1),
          lang |-> IF tagged THEN s[j + 2] ELSE "",
          end |-> IF tagged THEN j + 2 ELSE j]
    ELSE [ok |-> FALSE, label |-> << >>, lang |-> "", end |-> i]

\* re.findall(r'"([^"]+)"(?:@([a-z]{2}))?', s) from position i on
RECURSIVE FindQuoted(_, _)
FindQuoted(s, i) ==
    LET k == IndexFrom(s, "\"", i) IN
    IF k = 0 THEN << >>
    ELSE LET q == QuotedAt(s, k) IN
         IF q.ok THEN << [label |-> q.label, lang |-> q.lang] >> \o FindQuoted(s, q.end + 1)
         ELSE FindQuoted(s, k + 1)

\* re.findall(r'skos:<pred>\s+"([^"]+)"(?:@([a-z]{2}))?', s) from i on
RECURSIVE FindPred(_, _, _)
FindPred(s, pred, i) ==
    LET k == FindSub(s, << "skos", ":", pred >>, i) IN
    IF k = 0 THEN << >>
    ELSE LET e == SkipWs(s, k + 3)
             q == QuotedAt(s, e)
         IN IF e > k + 3 /\ q.ok
            THEN << [label |-> q.label, lang |-> q.lang] >> \o FindPred(s, pred, q.end + 1)
            ELSE FindPred(s, pred, k + 1)

\* position of the first ';' or '.' at or after i, 0 if none
RECURSIVE TerminatorFrom(_, _)
TerminatorFrom(s, i) ==
    IF i > Len(s) THEN 0
    ELSE IF s[i] \in {";", "."} THEN i
    ELSE TerminatorFrom(s, i + 1)

\* for m in re.finditer(r'skos:<pred>\s+', block): the quoted values found
\* in the segment between the match and the next ';' or '.'
RECURSIVE FindMulti(_, _, _)
FindMulti(s, pred, i) ==
    LET k == FindSub(s, << "skos", ":", pred >>, i) IN
    IF k = 0 THEN << >>
    ELSE LET e == SkipWs(s, k + 3) IN
         IF e = k + 3 THEN FindMulti(s, pred, k + 1)
         ELSE LET t == TerminatorFrom(s, e)
                  segment == IF t = 0 THEN SubSeq(s, e, Len(s)) ELSE SubSeq(s, e, t - 1)
              IN FindQuoted(segment, 1) \o FindMulti(s, pred, e)

\* the effects of a sequence of operations, in order: their values, all the
\* counters they raised and all the log entries they wrote
Effects(parts) ==
    [val |-> [k \in 1..Len(parts) |-> parts[k].val],
     inc |-> Flatten([k \in 1..Len(parts) |-> parts[k].inc]),
     log |-> Flatten([k \in 1..Len(parts) |-> parts[k].log])]

\* "cleaned = self._clean_label(label)" or "... self._clean_text_field(text)"
CleanItem(item, isLabel) ==
    IF isLabel THEN clean_label(item.label) ELSE clean_text_field(item.label)

\* "if cleaned: list.append((cleaned, lang or 'en'))" for every item
KeepCleaned(items, cleaned) ==
    [val |-> Flatten([k \in 1..Len(items) |->
                IF cleaned.val[k] # None
                THEN << [text |-> cleaned.val[k],
                         lang |-> IF items[k].lang = "" THEN "en" ELSE items[k].lang] >>
                ELSE << >>]),
     inc |-> cleaned.inc,
     log |-> cleaned.log]

\* the loop "for label, lang in ...: cleaned = clean(label); if cleaned: ..."
\* isLabel chooses _clean_label, otherwise _clean_text_field
CleanItems(items, isLabel) ==
    KeepCleaned(items, Effects([k \in 1..Len(items) |-> CleanItem(items[k], isLabel)]))

\* "if entry not in list: list.append(entry)" for each entry
RECURSIVE AppendNew(_, _)
AppendNew(list, entries) ==
    IF entries = << >> THEN list
    ELSE AppendNew(IF Head(entries) \in Range(list) THEN list ELSE Append(list, Head(entries)),
                   Tail(entries))

\* the entries of the findall pass, then those of the multi-object pass that
\* are not in the list yet
MergePasses(single, multi) ==
    [val |-> AppendNew(single.val, multi.val),
     inc |-> single.inc \o multi.inc,
     log |-> single.log \o multi.log]

\* prefLabels/altLabels of a block: the findall pass, then the pass over
\* comma-joined multi-object lists
extract_labels(s, pred) ==
    MergePasses(CleanItems(FindPred(s, pred, 1), TRUE), CleanItems(FindMulti(s, pred, 1), TRUE))

\* definitions, notes, ... of a block: the findall pass only
extract_texts(s, pred) == CleanItems(FindPred(s, pred, 1), FALSE)

ConceptDeclEnd == << "a", " ", "skos", ":", "Concept", " ", ";" >>

\* the inner while loop of _parse_multiline_properties: collects the lines
\* of one property from index i; next is the index the loop stops at
RECURSIVE CollectProperty(_, _, _)
CollectProperty(lines, i, acc) ==
    IF i > Len(lines) THEN [property_lines |-> acc, next |-> i]
    ELSE LET current_line == Strip(lines[i]) IN
         IF current_line = << >> THEN CollectProperty(lines, i + 1, acc)
         ELSE IF Last(current_line) \in {";", "."}
              THEN [property_lines |-> Append(acc, current_line), next |-> i]
         ELSE CollectProperty(lines, i + 1, Append(acc, current_line))

RECURSIVE PropertyLoop(_, _)
PropertyLoop(lines, i) ==
    IF i > Len(lines) THEN << >>
    ELSE LET line == Strip(lines[i]) IN
         IF \/ line = << >> \/ IsComment(line)
            \/ EndsWith(line, ConceptDeclEnd) \/ line = << "." >>
            \/ StartsWith(line, << "http", ":", "/", "/" >>) \/ Head(line) = "<"
         THEN PropertyLoop(lines, i + 1)
         ELSE IF \E k \in 1..Len(TextPreds) : HasSub(line, << "skos", ":", TextPreds[k] >>)
         THEN PropertyLoop(lines, i + 1)
         ELSE IF Contains(line, ":")
         THEN LET c == CollectProperty(lines, i, << >>)
                  complete_property ==
                      Strip(RStripSet(Join(c.property_lines, << " " >>), {" ", ";", ".", ","}))
              IN (IF complete_property # << >> /\ Contains(complete_property, ":")
                  THEN << complete_property >> ELSE << >>)
                 \o PropertyLoop(lines, c.next + 1)
         ELSE PropertyLoop(lines, i + 1)

\* TTLCleaner._parse_multiline_properties
parse_multiline_properties(block) == PropertyLoop(block, 1)

\* first line of the block on which the subject regex matches (re.search
\* with re.MULTILINE), 0 if none
RECURSIVE SubjectLine(_, _)
SubjectLine(block, i) ==
    IF i > Len(block) THEN 0
    ELSE IF ConceptStart(block[i]) > 0 THEN i
    ELSE SubjectLine(block, i + 1)

\* the subject of the block as written: group 1 of the subject regex,
\* stripped; None without a match
RawUri(block) ==
    LET n == SubjectLine(block, 1) IN
    IF n = 0 THEN None ELSE Strip(SubSeq(block[n], 1, ConceptStart(block[n])))

\* the k-th text predicate of the block text s, in the order of TextPreds
ExtractField(s, k) ==
    IF k <= Len(LabelPreds) THEN extract_labels(s, TextPreds[k])
    ELSE extract_texts(s, TextPreds[k])

\* a block whose prefLabels all lost their text is kept all the same
NeverRejected(prefLabels) == FALSE

\* "if not concept['prefLabels']": the block is rejected
Rejected(prefLabels) == prefLabels = << >>

\* the concept record and the effects, from the parts of the block:
\* cls is the classification of the URI change, fields the effects of the
\* nine extractions, other the other_properties
ConceptOf(raw_uri, cleaned_uri, cls, fields, other) ==
    LET logged == raw_uri # cleaned_uri /\ cls.msg # ""
        rejected == Rejected(fields.val[1])
    IN [val |-> IF rejected THEN None
                ELSE [uri |-> cleaned_uri,
                      prefLabels |-> fields.val[1], altLabels |-> fields.val[2],
                      definitions |-> fields.val[3], notes |-> fields.val[4],
                      scopeNotes |-> fields.val[5], editorialNotes |-> fields.val[6],
                      historyNotes |-> fields.val[7], changeNotes |-> fields.val[8],
                      examples |-> fields.val[9],
                      other_properties |-> other,
                      issues |-> IF logged
                                 THEN << IF cls.is_fix THEN "URI fixed"
                                         ELSE "URI normalized" >>
                                 ELSE << >>],
        inc |-> (IF logged
                 THEN << IF cls.is_fix THEN "malformed_uris_fixed" ELSE "uri_normalizations" >>
                 ELSE << >>)
                \o fields.inc
                \o (IF rejected THEN << "concepts_without_preflabel" >> ELSE << >>),
        log |-> (IF logged THEN << LogEntry(cls.msg, cleaned_uri) >> ELSE << >>)
                \o fields.log]

\* _parse_concept_block after the URI has been cleaned
ParseCleaned(block, base, raw_uri, cleaned_uri) ==
    ConceptOf(raw_uri, cleaned_uri, classify_uri_change(raw_uri, cleaned_uri, base),
              Effects([k \in 1..Len(TextPreds) |-> ExtractField(Content(block), k)]),
              parse_multiline_properties(block))

\* _parse_concept_block after the subject regex has been applied
ParseSubject(block, base, raw_uri) ==
    IF raw_uri = None THEN [val |-> None, inc |-> << >>, log |-> << >>]
    ELSE ParseCleaned(block, base, raw_uri, clean_uri(raw_uri, base))

\* TTLCleaner._parse_concept_block: val is the concept record, or None when
\* the block is rejected.  The raw_block field is never read and is left out.
parse_concept_block(block, base) == ParseSubject(block, base, RawUri(block))

\* "if concept: concepts.append(concept)" for every parsed block
KeepParsed(parsed) ==
    [val |-> SelectSeq(parsed.val, LAMBDA c : c # None),
     inc |-> parsed.inc,
     log |-> parsed.log]

\* the loop of _extract_concepts over the blocks
ParseBlocks(blocks, base) ==
    KeepParsed(Effects([k \in 1..Len(blocks) |-> parse_concept_block(blocks[k], base)]))

\* ------------------------------------------------------------------------
\* Deduplicator
\* ------------------------------------------------------------------------
\* a deduplication that keeps the last concept of every URI instead
LastSeenWins(concepts, i, seen_uris) ==
    LET kept == { k \in i..Len(concepts) :
                    \A j \in (k + 1)..Len(concepts) : concepts[j].uri # concepts[k].uri }
    IN [val |-> SelectSeq([k \in 1..(Len(concepts) - i + 1) |->
                              IF (k + i - 1) \in kept THEN concepts[k + i - 1] ELSE None],
                          LAMBDA c : c # None),
        inc |-> [k \in 1..(Len(concepts) - i + 1 - Cardinality(kept)) |-> "duplicates_removed"],
        log |-> << >>]

\* the loop of _clean_concepts over concepts[i..] with the set seen_uris
RECURSIVE CleanLoop(_, _, _)
CleanLoop(concepts, i, seen_uris) ==
    IF i > Len(concepts) THEN [val |-> << >>, inc |-> << >>, log |-> << >>]
    ELSE LET uri == concepts[i].uri IN
         IF uri \notin seen_uris
         THEN LET rest == CleanLoop(concepts, i + 1, seen_uris \cup {uri}) IN
              [val |-> << concepts[i] >> \o rest.val, inc |-> rest.inc, log |-> rest.log]
         ELSE LET rest == CleanLoop(concepts, i + 1, seen_uris) IN
              [val |-> rest.val,
               inc |-> << "duplicates_removed" >> \o rest.inc,
               log |-> << LogEntry("Duplicate removed", uri) >> \o rest.log]

\* a deduplication that removes and logs duplicates without counting them
UncountedDedup(concepts) == [CleanLoop(concepts, 1, {}) EXCEPT !.inc = << >>]

\* TTLCleaner._clean_concepts
clean_concepts(concepts) == CleanLoop(concepts, 1, {})

Min(a, b) == IF a < b THEN a ELSE b

\* TTLCleaner._clean_concepts_chunked: _clean_concepts on each slice
\* concepts[i:i + chunk_size]; chunks counts the slices (processed_chunks)
RECURSIVE clean_concepts_chunked(_, _)
clean_concepts_chunked(concepts, chunk_size) ==
    IF concepts = << >> THEN [val |-> << >>, inc |-> << >>, log |-> << >>, chunks |-> 0]
    ELSE LET n == Min(chunk_size, Len(concepts))
             c == clean_concepts(SubSeq(concepts, 1, n))
             rest == clean_concepts_chunked(SubSeq(concepts, n + 1, Len(concepts)), chunk_size)
         IN [val |-> c.val \o rest.val, inc |-> c.inc \o rest.inc,
             log |-> c.log \o rest.log, chunks |-> 1 + rest.chunks]

\* ------------------------------------------------------------------------
\* Hierarchy autofixer
\* ------------------------------------------------------------------------
BroaderKey == << "skos", ":", "broader", " " >>
NarrowerKey == << "skos", ":", "narrower", " " >>
RelatedKey == << "skos", ":", "related", " " >>
InSchemeKey == << "skos", ":", "inScheme", " " >>
TopConceptOfKey == << "skos", ":", "topConceptOf", " " >>

\* keys of code_to_uri in insertion order
RECURSIVE CodeKeys(_)
CodeKeys(concepts) ==
    IF concepts = << >> THEN << >>
    ELSE LET keys == CodeKeys(SubSeq(concepts, 1, Len(concepts) - 1))
             code == extract_numeric_code(Last(concepts).uri)
         IN IF code = None \/ code \in Range(keys) THEN keys ELSE Append(keys, code)

\* code_to_uri[code]: the uri of the last concept that carries the code
RECURSIVE CodeToUri(_, _)
CodeToUri(concepts, code) ==
    IF concepts = << >> THEN None
    ELSE IF extract_numeric_code(Last(concepts).uri) = code THEN Last(concepts).uri
    ELSE CodeToUri(SubSeq(concepts, 1, Len(concepts) - 1), code)

\* codes of the targets of the properties of one concept that contain key
TargetCodes(concept, key, exceptKey) ==
    { extract_numeric_code(t) :
        t \in UNION { Range(extract_uris_from_property(concept.other_properties[k])) :
                        k \in { j \in 1..Len(concept.other_properties) :
                                  /\ HasSub(concept.other_properties[j], key)
                                  /\ exceptKey = << >>
                                     \/ ~HasSub(concept.other_properties[j], exceptKey) } } }
    \ {None}

\* broader_map[code] of _apply_hierarchy_autofix and _validate_hierarchy_gaps:
\* filled per source code from every concept that carries the code
BroaderMap(concepts, code) ==
    UNION { TargetCodes(concepts[i], BroaderKey, << >>) :
              i \in { j \in 1..Len(concepts) : extract_numeric_code(concepts[j].uri) = code } }

\* narrower_map[code] (the elif branch: properties without 'skos:broader ')
NarrowerMap(concepts, code) ==
    UNION { TargetCodes(concepts[i], NarrowerKey, BroaderKey) :
              i \in { j \in 1..Len(concepts) : extract_numeric_code(concepts[j].uri) = code } }

\* [p for p in prefixes if p in all_codes]
ExistingPrefixes(concepts, code) == SelectIn(code_prefixes(code), Range(CodeKeys(concepts)))

\* max(candidates, key=len): the first candidate of maximal length
RECURSIVE MaxByLen(_)
MaxByLen(candidates) ==
    IF Len(candidates) = 1 THEN candidates[1]
    ELSE LET m == MaxByLen(Tail(candidates)) IN
         IF Len(candidates[1]) >= Len(m) THEN candidates[1] ELSE m

\* an autofix that appends the triple without looking for it among the properties
UncheckedTriple(c, parent_uri) ==
    BroaderKey \o << "<" >> \o StripSet(parent_uri, {"<", ">"}) \o << ">" >>

\* "triple = f'skos:broader <{parent_uri_full}>'; if triple not in
\* concept['other_properties']": the triple to append, None when it is there
NewTriple(c, parent_uri) ==
    LET triple == BroaderKey \o << "<" >> \o StripSet(parent_uri, {"<", ">"}) \o << ">" >>
    IN IF triple \in Range(c.other_properties) THEN None ELSE triple

\* the choice of the parent among the existing candidate prefixes
TripleAmong(concepts, c, code, prefixes, candidates) ==
    IF prefixes = << >> \/ candidates = << >> THEN None
    ELSE IF BroaderMap(concepts, code) \cap Range(candidates) # {} THEN None
    ELSE NewTriple(c, CodeToUri(concepts, MaxByLen(candidates)))

TripleFor(concepts, c, code) ==
    IF code = None THEN None
    ELSE TripleAmong(concepts, c, code, code_prefixes(code), ExistingPrefixes(concepts, code))

\* the triple the autofix appends for one concept, None when it appends nothing
AutofixTriple(concepts, c) == TripleFor(concepts, c, extract_numeric_code(c.uri))

\* an autofix that appends and logs the triple without counting it
FixedUncounted(c, triple) ==
    IF triple = None THEN [val |-> c, inc |-> << >>, log |-> << >>]
    ELSE [val |-> [c EXCEPT !.other_properties = Append(@, triple)],
          inc |-> << >>,
          log |-> << LogEntry("Autofix", c.uri) >>]

\* "concept.setdefault('other_properties', []).append(triple); added += 1"
\* and the change-log entry, for one concept
Fixed(c, triple) ==
    IF triple = None THEN [val |-> c, inc |-> << >>, log |-> << >>]
    ELSE [val |-> [c EXCEPT !.other_properties = Append(@, triple)],
          inc |-> << "added" >>,
          log |-> << LogEntry("Autofix", c.uri) >>]

\* the list after the in-place change, the returned count and the log
Added(fixed) == [val |-> fixed.val, added |-> Len(fixed.inc), log |-> fixed.log]

\* TTLCleaner._apply_hierarchy_autofix: val is the list after the in-place
\* change, added the returned count
apply_hierarchy_autofix(concepts) ==
    IF CodeKeys(concepts) = << >>
    THEN [val |-> concepts, added |-> 0, log |-> << >>]
    ELSE Added(Effects([k \in 1..Len(concepts) |->
                           Fixed(concepts[k], AutofixTriple(concepts, concepts[k]))]))

\* ------------------------------------------------------------------------
\* Validation engine.  A finding is modelled by the fixed leading text of
\* its message (kind), the URI it names (subject) and one further value of
\* the message (detail).  A rule family returns [violations, warnings];
\* family 5 also returns the infos it adds to self.validation_infos.
\* ------------------------------------------------------------------------
Finding(kind, subject, detail) == [kind |-> kind, subject |-> subject, detail |-> detail]

\* sequence of the elements of a finite set, in some fixed order (iteration
\* over a Python set)
RECURSIVE SetToSeq(_)
SetToSeq(S) ==
    IF S = {} THEN << >>
    ELSE LET x == CHOOSE y \in S : TRUE IN << x >> \o SetToSeq(S \ {x})

Langs(labels) == Dedup([i \in 1..Len(labels) |-> labels[i].lang])

LabelPairs(labels) == { << labels[i].text, labels[i].lang >> : i \in 1..Len(labels) }

LongLabelLimit == 500

\* the label quality warnings of _validate_skos_integrity for one label
LabelWarnings(uri, label_text) ==
    (IF Len(label_text) > LongLabelLimit
     THEN << Finding("Very long label", uri, label_text) >> ELSE << >>)
    \o (IF label_text = << >> THEN << Finding("Empty label", uri, label_text) >> ELSE << >>)
    \o (IF Contains(label_text, "Ã¤")
        THEN << Finding("Potential encoding issue", uri, label_text) >> ELSE << >>)
    \o (IF StartsWithHttp(label_text) /\ Len(label_text) >= 4
           /\ SubSeq(label_text, 2, 4) = << ":", "/", "/" >>
        THEN << Finding("Label looks like URI", uri, label_text) >> ELSE << >>)

\* family 1, TTLCleaner._validate_skos_integrity, for one concept
IntegrityOf(concept) ==
    LET uri == concept.uri
        pref == concept.prefLabels
        langs == Langs(pref)
        count(lang) == Cardinality({ i \in 1..Len(pref) : pref[i].lang = lang })
        overlap == LabelPairs(pref) \cap LabelPairs(concept.altLabels)
        all_labels == pref \o concept.altLabels
    IN [violations |->
            Flatten([k \in 1..Len(langs) |->
                       IF count(langs[k]) > 1
                       THEN << Finding("S14 Violation", uri, << langs[k] >>) >> ELSE << >>])
            \o (IF overlap # {}
                THEN << Finding("S13 Violation", uri,
                                Join(SetToSeq({ o[1] : o \in overlap }), << ",", " " >>)) >>
                ELSE << >>),
        warnings |->
            Flatten([k \in 1..Len(all_labels) |-> LabelWarnings(uri, all_labels[k].text)])]

validate_skos_integrity(concepts) ==
    [violations |-> Flatten([i \in 1..Len(concepts) |-> IntegrityOf(concepts[i]).violations]),
     warnings |-> Flatten([i \in 1..Len(concepts) |-> IntegrityOf(concepts[i]).warnings])]

\* (uri, target) for every target of every property of the concept that
\* contains key and (elif branch) does not contain exceptKey
RelationsOf(concept, key, exceptKey) ==
    Flatten([k \in 1..Len(concept.other_properties) |->
        LET prop == concept.other_properties[k]
            targets == extract_uris_from_property(prop)
        IN IF HasSub(prop, key) /\ (exceptKey = << >> \/ ~HasSub(prop, exceptKey))
           THEN [t \in 1..Len(targets) |-> << concept.uri, targets[t] >>]
           ELSE << >>])

\* family 2, TTLCleaner._validate_semantic_relations
validate_semantic_relations(concepts) ==
    LET broader_relations ==
            Flatten([i \in 1..Len(concepts) |-> RelationsOf(concepts[i], BroaderKey, << >>)])
        related_relations ==
            Flatten([i \in 1..Len(concepts) |-> RelationsOf(concepts[i], RelatedKey, BroaderKey)])
        broader_set == Range(broader_relations)
        direct_conflicts == SetToSeq(broader_set \cap Range(related_relations))
    IN [violations |->
            [k \in 1..Len(direct_conflicts) |->
                Finding("S27 Violation", direct_conflicts[k][1], direct_conflicts[k][2])],
        warnings |->
            Flatten([k \in 1..Len(broader_relations) |->
                IF << broader_relations[k][2], broader_relations[k][1] >> \in broader_set
                THEN << Finding("Simple cycle detected",
                                broader_relations[k][1], broader_relations[k][2]) >>
                ELSE << >>])]

\* TTLCleaner._is_valid_language_tag: ^[a-z]{2,3}(-[A-Za-z0-9]{1,8})*$ on the
\* one-atom tags the parser produces
is_valid_language_tag(tag) == tag # "" /\ tag \in LangAtoms

\* family 3, TTLCleaner._validate_datatypes_and_uris
validate_datatypes_and_uris(concepts) ==
    [violations |->
        Flatten([i \in 1..Len(concepts) |->
            IF ~is_valid_uri(concepts[i].uri)
            THEN << Finding("Invalid URI format", concepts[i].uri, << >>) >> ELSE << >>]),
     warnings |->
        Flatten([i \in 1..Len(concepts) |->
            LET labels == concepts[i].prefLabels \o concepts[i].altLabels IN
            Flatten([k \in 1..Len(labels) |->
                IF labels[k].lang # "" /\ ~is_valid_language_tag(labels[k].lang)
                THEN << Finding("Potentially invalid language tag", concepts[i].uri,
                                << labels[k].lang >>) >>
                ELSE << >>])])]

\* TTLCleaner._extract_uri_from_property: the first <...> of the property,
\* wrapped in angle brackets again, None without one
extract_uri_from_property(prop) ==
    IF extract_uris_from_property(prop) = << >> THEN None
    ELSE extract_uris_from_property(prop)[1]

XlLabelKeys ==
    { << "skosxl", ":", "prefLabel" >>, << "skosxl", ":", "altLabel" >>,
      << "skosxl", ":", "hiddenLabel" >> }

XlLiteralKey == << "skosxl", ":", "literalForm" >>

\* "any(xl_prop in prop for xl_prop in [...])"
IsXlReference(prop) == \E key \in XlLabelKeys : HasSub(prop, key)

\* (concept index, property index) of every property, in loop order
PropertyPositions(concepts) ==
    Flatten([i \in 1..Len(concepts) |->
               [k \in 1..Len(concepts[i].other_properties) |-> << i, k >>]])

\* xl_label_uris when the loop reaches position n of positions
XlLabelUris(concepts, positions, n) ==
    { extract_uri_from_property(concepts[positions[m][1]].other_properties[positions[m][2]]) :
        m \in { j \in 1..(n - 1) :
                  IsXlReference(concepts[positions[j][1]].other_properties[positions[j][2]]) } }
    \ { None }

\* the warning of _validate_skos_xl_labels for one property of one concept
XlWarning(concepts, uri, prop, xl_label_uris) ==
    IF IsXlReference(prop)
    THEN IF extract_uri_from_property(prop) # None
            /\ extract_uri_from_property(prop) \in Range([i \in 1..Len(concepts) |-> concepts[i].uri])
         THEN << Finding("SKOS-XL label URI", extract_uri_from_property(prop), uri) >>
         ELSE << >>
    ELSE IF HasSub(prop, XlLiteralKey) /\ uri \notin xl_label_uris
    THEN << Finding("Orphaned SKOS-XL label", uri, << >>) >>
    ELSE << >>

XlLoop(concepts, positions) ==
    Flatten([n \in 1..Len(positions) |->
               XlWarning(concepts, concepts[positions[n][1]].uri,
                         concepts[positions[n][1]].other_properties[positions[n][2]],
                         XlLabelUris(concepts, positions, n))])

\* the SKOS-XL family, TTLCleaner._validate_skos_xl_labels
validate_skos_xl_labels(concepts, enable_skos_xl) ==
    [violations |-> << >>,
     warnings |-> IF enable_skos_xl THEN XlLoop(concepts, PropertyPositions(concepts))
                  ELSE << >>]

\* the findings of _validate_hierarchy_gaps for one code: uri is the URI
\* registered for it, prefixes its candidate prefixes, broader_codes the
\* codes its skos:broader links point to
HierarchyFindings(concepts, warn_missing_narrower, all_codes, code, uri, prefixes, broader_codes) ==
    LET prefix_candidates == Range(prefixes) \cap all_codes
        parents == SelectIn(prefixes, broader_codes \cap prefix_candidates)
    IN [violations |->
            IF prefix_candidates # {} /\ broader_codes \cap prefix_candidates = {}
            THEN << Finding("Inconsistent hierarchy", uri, code) >> ELSE << >>,
        warnings |->
            Flatten([k \in 1..Len(prefixes) |->
                IF prefixes[k] \notin all_codes
                THEN << Finding("Hierarchy gap", uri, prefixes[k]) >> ELSE << >>]),
        infos |->
            Flatten([k \in 1..Len(parents) |->
                IF warn_missing_narrower /\ code \notin NarrowerMap(concepts, parents[k])
                THEN << Finding("Parent missing skos:narrower",
                                CodeToUri(concepts, parents[k]), uri) >>
                ELSE << >>])]

HierarchyOf(concepts, warn_missing_narrower, all_codes, code) ==
    HierarchyFindings(concepts, warn_missing_narrower, all_codes, code,
                      CodeToUri(concepts, code), code_prefixes(code),
                      BroaderMap(concepts, code))

\* the findings of all passes of a loop, in order
Collect(parts) ==
    [violations |-> Flatten([k \in 1..Len(parts) |-> parts[k].violations]),
     warnings |-> Flatten([k \in 1..Len(parts) |-> parts[k].warnings]),
     infos |-> Flatten([k \in 1..Len(parts) |-> parts[k].infos])]

\* the loop "for code, uri in code_to_uri.items()" over the keys
HierarchyLoop(concepts, warn_missing_narrower, keys) ==
    Collect([k \in 1..Len(keys) |->
                HierarchyOf(concepts, warn_missing_narrower, Range(keys), keys[k])])

\* family 5, TTLCleaner._validate_hierarchy_gaps: one pass per key of
\* code_to_uri, with the uri registered for the code
validate_hierarchy_gaps(concepts, warn_missing_narrower) ==
    HierarchyLoop(concepts, warn_missing_narrower, CodeKeys(concepts))

\* in_scheme[uri] / top_of[uri] of _validate_scheme_consistency
SchemeTokens(concepts, uri, key) ==
    UNION { UNION { Range(extract_uris_from_property(concepts[i].other_properties[k])) :
                      k \in { j \in 1..Len(concepts[i].other_properties) :
                                HasSub(concepts[i].other_properties[j], key) } } :
              i \in { j \in 1..Len(concepts) : concepts[j].uri = uri } }

\* re.findall(r'skos:hasTopConcept\s+<([^>]+)>', scheme) from position i on
RECURSIVE TopConceptTargets(_, _)
TopConceptTargets(s, i) ==
    LET k == FindSub(s, << "skos", ":", "hasTopConcept" >>, i) IN
    IF k = 0 THEN << >>
    ELSE LET e == SkipWs(s, k + 3)
             j == IF e > k + 3 /\ e <= Len(s) /\ s[e] = "<" THEN IndexFrom(s, ">", e + 1) ELSE 0
         IN IF j > e + 1
            THEN << SubSeq(s, e + 1, j - 1) >> \o TopConceptTargets(s, j + 1)
            ELSE TopConceptTargets(s, k + 1)

IsConceptScheme == {"ConceptScheme"}

\* group 1 of ^(<[^>]+>|[a-zA-Z0-9_:/-]+)\s+a\s+skos:ConceptScheme on the
\* first line of the scheme block, None without a match
SchemeSubject(concept_scheme) ==
    LET first_line == Strip(Split(concept_scheme, "\n")[1])
        e == SubjectEnd(first_line)
    IN IF e > 0 /\ TypeDeclAt(first_line, e + 1, IsConceptScheme)
       THEN SubSeq(first_line, 1, e) ELSE None

\* family 6, TTLCleaner._validate_scheme_consistency
validate_scheme_consistency(concepts, concept_scheme, base) ==
    LET uris == Dedup([i \in 1..Len(concepts) |-> concepts[i].uri])
        concept_uris == Range(uris)
        topOfChecks ==
            Flatten([k \in 1..Len(uris) |->
                LET missing == SetToSeq(SchemeTokens(concepts, uris[k], TopConceptOfKey)
                                        \ SchemeTokens(concepts, uris[k], InSchemeKey))
                IN [m \in 1..Len(missing) |->
                      Finding("has topConceptOf", uris[k], missing[m])]])
        scheme_subject == SchemeSubject(concept_scheme)
        scheme_subject_inner == Unbracket(scheme_subject)
        scheme_subject_bare == clean_uri(scheme_subject_inner, base)
        expected_tokens ==
            { << "<" >> \o scheme_subject_inner \o << ">" >>,
              << "<" >> \o scheme_subject_bare \o << ">" >> }
        targets == TopConceptTargets(concept_scheme, 1)
        perTarget(target) ==
            LET target_bare == clean_uri(Strip(target), base) IN
            IF target_bare \notin concept_uris
            THEN << Finding("hasTopConcept points to non-Concept", target_bare, << >>) >>
            ELSE IF scheme_subject # None
                    /\ SchemeTokens(concepts, target_bare, InSchemeKey) \cap expected_tokens = {}
            THEN << Finding("is hasTopConcept of", target_bare,
                            << "<" >> \o scheme_subject_inner \o << ">" >>) >>
            ELSE << >>
    IN [violations |->
            topOfChecks
            \o (IF concept_scheme # None
                THEN Flatten([k \in 1..Len(targets) |-> perTarget(targets[k])])
                ELSE << >>),
        warnings |-> << >>]

\* ------------------------------------------------------------------------
\* Report summary
\* ------------------------------------------------------------------------
\* the kinds whose message begins with the subject ("Concept <uri> has ...")
InfixKinds == { "has topConceptOf", "is hasTopConcept of" }

\* the text of a finding as the f-string of its family builds it: the kind
\* either opens the message or follows "Concept <uri> ", and the two scheme
\* messages of the second form end in "missing inScheme"
Message(f) ==
    IF f.kind \in InfixKinds
    THEN << "Concept", " ", "<" >> \o f.subject \o << ">", " ", f.kind, " " >> \o f.detail
         \o << " ", "but", " ", "missing inScheme" >>
    ELSE << f.kind, " " >> \o f.subject \o << " " >> \o f.detail

\* the table "categories" of _summarize_validation_counts: a message is
\* counted when it starts with the key (prefix) or holds every key
Categories ==
    << [name |-> "S14 prefLabel duplicates", prefix |-> TRUE, keys |-> { "S14 Violation" }],
       [name |-> "S13 pref/alt overlap", prefix |-> TRUE, keys |-> { "S13 Violation" }],
       [name |-> "URI format invalid", prefix |-> TRUE, keys |-> { "Invalid URI format" }],
       [name |-> "Language tag possibly invalid", prefix |-> FALSE,
        keys |-> { "Potentially invalid language tag" }],
       [name |-> "S27 broader+related conflict", prefix |-> TRUE, keys |-> { "S27 Violation" }],
       [name |-> "Simple hierarchy cycles", prefix |-> TRUE, keys |-> { "Simple cycle detected" }],
       [name |-> "Hierarchy gap (missing intermediate level)", prefix |-> TRUE,
        keys |-> { "Hierarchy gap" }],
       [name |-> "Hierarchy: missing broader to prefix", prefix |-> TRUE,
        keys |-> { "Inconsistent hierarchy" }],
       [name |-> "Hierarchy: parent missing narrower", prefix |-> TRUE,
        keys |-> { "Parent missing skos:narrower" }],
       [name |-> "Scheme: topConceptOf without inScheme", prefix |-> FALSE,
        keys |-> { "has topConceptOf", "missing inScheme" }],
       [name |-> "Scheme: hasTopConcept -> non-Concept", prefix |-> FALSE,
        keys |-> { "hasTopConcept points to non-Concept" }],
       [name |-> "Scheme: hasTopConcept target missing inScheme", prefix |-> FALSE,
        keys |-> { "is hasTopConcept of", "missing inScheme" }],
       [name |-> "Label warning: very long", prefix |-> TRUE, keys |-> { "Very long label" }],
       [name |-> "Label warning: empty", prefix |-> TRUE, keys |-> { "Empty label" }],
       [name |-> "Label warning: encoding issue", prefix |-> TRUE,
        keys |-> { "Potential encoding issue" }],
       [name |-> "Label warning: looks like URI", prefix |-> TRUE,
        keys |-> { "Label looks like URI" }] >>

\* predicate(msg) of one category
Matches(category, msg) ==
    IF category.prefix THEN msg # << >> /\ msg[1] \in category.keys
    ELSE \A key \in category.keys : Contains(msg, key)

\* TTLCleaner._summarize_validation_counts: the count of every category over
\* violations + warnings + infos
summarize_validation_counts(violations, warnings, infos) ==
    [name \in { Categories[c].name : c \in 1..Len(Categories) } |->
        Cardinality({ << c, m >> \in (1..Len(Categories))
                                     \X (1..Len(violations \o warnings \o infos)) :
                        /\ Categories[c].name = name
                        /\ Matches(Categories[c], Message((violations \o warnings \o infos)[m])) })]

\* ------------------------------------------------------------------------
\* Serializer
\* ------------------------------------------------------------------------
ConceptDecl == << " ", "a", " ", "skos", ":", "Concept", " ", ";" >>

Indent == << " ", " ", " ", " " >>

\* one property string of _format_concept: f is the result of
\* _fix_comma_spacing on the text of the entry
FormatFixed(e, pred, counter, f) ==
    [val |-> << "skos", ":", pred, " ", "\"" >> \o f.val \o << "\"" >>
             \o (IF e.lang # "" THEN << "@", e.lang >> ELSE << >>),
     inc |-> f.inc \o (IF counter # "" THEN << counter >> ELSE << >>),
     log |-> f.log]

FormatEntry(e, pred, counter) == FormatFixed(e, pred, counter, fix_comma_spacing(e.text))

\* the loop over one list of (text, lang) entries in _format_concept: the
\* property strings, with the effects of _fix_comma_spacing and the counter
\* of the list
FormatEntries(entries, pred, counter) ==
    Effects([k \in 1..Len(entries) |-> FormatEntry(entries[k], pred, counter)])

\* the entries written last to first
RECURSIVE ReverseOther(_)
ReverseOther(props) ==
    IF props = << >> THEN << >>
    ELSE LET clean_prop == Strip(RStripSet(Head(props), {" ", ";", ".", ","})) IN
         ReverseOther(Tail(props)) \o (IF clean_prop # << >> THEN << clean_prop >> ELSE << >>)

\* the cleaned other_properties entries that are not blank
RECURSIVE FormatOther(_)
FormatOther(props) ==
    IF props = << >> THEN << >>
    ELSE LET clean_prop == Strip(RStripSet(Head(props), {" ", ";", ".", ","})) IN
         (IF clean_prop # << >> THEN << clean_prop >> ELSE << >>) \o FormatOther(Tail(props))

\* the lists _format_concept writes, in its order, each with its predicate
\* and the counter it raises per entry
FieldTable ==
    << [field |-> "prefLabels", pred |-> "prefLabel", counter |-> "labels_processed"],
       [field |-> "altLabels", pred |-> "altLabel", counter |-> "labels_processed"],
       [field |-> "definitions", pred |-> "definition", counter |-> "definitions_processed"],
       [field |-> "notes", pred |-> "note", counter |-> "notes_processed"],
       [field |-> "scopeNotes", pred |-> "scopeNote", counter |-> "notes_processed"],
       [field |-> "editorialNotes", pred |-> "editorialNote", counter |-> "notes_processed"],
       [field |-> "historyNotes", pred |-> "historyNote", counter |-> "notes_processed"],
       [field |-> "changeNotes", pred |-> "changeNote", counter |-> "notes_processed"],
       [field |-> "examples", pred |-> "example", counter |-> ""] >>

FormatFields(concept) ==
    Effects([k \in 1..Len(FieldTable) |->
                FormatEntries(concept[FieldTable[k].field], FieldTable[k].pred,
                              FieldTable[k].counter)])

\* the lines of the block from the property strings of the lists
FormatLines(concept, base, parts) ==
    LET uri == concept.uri
        first == IF base # None /\ StartsWith(uri, base)
                 THEN << "<" >> \o SubSeq(uri, Len(base) + 1, Len(uri)) \o << ">" >> \o ConceptDecl
                 ELSE uri \o ConceptDecl
        all_properties == Flatten(parts.val) \o FormatOther(concept.other_properties)
        n == Len(all_properties)
    IN [val |-> << first >>
                \o [i \in 1..n |->
                      Indent \o all_properties[i] \o (IF i < n THEN << " ", ";" >> ELSE << " ", "." >>)],
        inc |-> parts.inc,
        log |-> parts.log]

\* TTLCleaner._format_concept: val is the sequence of lines of the block
format_concept(concept, base) == FormatLines(concept, base, FormatFields(concept))

\* "@prefix skos: <http://www.w3.org/2004/02/skos/core#> ."
DefaultPrefixSkos ==
    << "@", "prefix", " ", "skos", ":", " ", "<", "http", ":", "/", "/", "www", ".", "w", "3",
       ".", "org", "/", "2", "0", "0", "4", "/", "0", "2", "/", "skos", "/", "core", "#", ">",
       " ", "." >>

\* "@prefix esco: <http://data.europa.eu/esco/> ."
DefaultPrefixEsco ==
    << "@", "prefix", " ", "esco", ":", " ", "<", "http", ":", "/", "/", "data", ".", "europa",
       ".", "eu", "/", "esco", "/", ">", " ", "." >>

\* the @prefix lines of the original document, stripped
RECURSIVE PrefixLines(_)
PrefixLines(lines) ==
    IF lines = << >> THEN << >>
    ELSE (IF StartsWith(Strip(Head(lines)), << "@", "prefix" >>)
          THEN << Strip(Head(lines)) >> ELSE << >>)
         \o PrefixLines(Tail(lines))

\* each formatted block followed by an empty line
BlankAfter(blocks) ==
    [val |-> Flatten([k \in 1..Len(blocks.val) |-> blocks.val[k] \o << << >> >>]),
     inc |-> blocks.inc,
     log |-> blocks.log]

\* the loop over the concepts in _generate_cleaned_content
FormatAll(concepts, base) ==
    BlankAfter(Effects([k \in 1..Len(concepts) |-> format_concept(concepts[k], base)]))

\* the document from its parts: the @base line, the prefixes, the
\* ConceptScheme block and the concept blocks
Compose(base_declaration, concept_scheme, prefixes, body) ==
    [val |-> (IF base_declaration # None THEN Split(base_declaration, "\n") ELSE << >>)
             \o (IF prefixes # << >> THEN prefixes \o << << >> >>
                 ELSE << DefaultPrefixSkos, DefaultPrefixEsco, << >> >>)
             \o (IF concept_scheme # None
                 THEN Split(concept_scheme, "\n") \o << << >> >> ELSE << >>)
             \o body.val,
     inc |-> body.inc,
     log |-> body.log]

\* TTLCleaner._generate_cleaned_content: val is the document as its lines
generate_cleaned_content(concepts, original_content, base_declaration, concept_scheme, base) ==
    Compose(base_declaration, concept_scheme, PrefixLines(original_content),
            FormatAll(concepts, base))

\* ------------------------------------------------------------------------
\* The cleaner object and one call of clean_ttl_file
\* ------------------------------------------------------------------------
VARIABLES
    config,                 \* constructor arguments (chunk_size, enable_validation, ...)
    stats,                  \* self.stats
    change_log,             \* self.change_log
    validation_violations,  \* self.validation_violations
    validation_warnings,    \* self.validation_warnings
    validation_infos,       \* self.validation_infos
    base_declaration,       \* self.base_declaration
    concept_scheme,         \* self.concept_scheme
    base_uri,               \* self.base_uri
    processed_chunks,       \* self.processed_chunks
    pc,                     \* position inside clean_ttl_file
    content,                \* the document read from input_path, as lines
    concepts,               \* local concepts (result of _extract_concepts)
    cleaned_concepts,       \* local cleaned_concepts
    returned,               \* locals violations, warnings of the validation call
    calls,                  \* the calls of the autofix and of the validation families, in order
    all_violations,         \* local all_violations
    all_warnings,           \* local all_warnings
    output,                 \* the cleaned file written by this call, None before
    report,                 \* the finding lists handed to the report writers
    result,                 \* return value of clean_ttl_file: "none", "True", "False"
    pending,                \* documents the same cleaner object is still to process
    generation,             \* how often the output was fed to a new cleaner
    runs,                   \* the calls of clean_ttl_file made on this cleaner object so far
    previous                \* the run whose output is being re-read

vars == << config, stats, change_log, validation_violations, validation_warnings,
           validation_infos, base_declaration, concept_scheme, base_uri, processed_chunks,
           pc, content, concepts, cleaned_concepts, returned, all_violations, all_warnings,
           output, report, result, pending, generation, runs, previous, calls >>

instance == << stats, change_log, validation_violations, validation_warnings,
               validation_infos, base_declaration, concept_scheme, base_uri, processed_chunks >>

StatKeys ==
    { "total_concepts", "duplicates_removed", "malformed_uris_fixed", "uri_normalizations",
      "encoding_issues_fixed", "text_fields_cleaned", "labels_processed", "final_concepts",
      "definitions_processed", "notes_processed", "empty_labels_removed",
      "invalid_concepts_removed", "comma_fixes", "concepts_without_preflabel" }

\* number of occurrences of key in the sequence inc
Count(inc, key) == Cardinality({ i \in 1..Len(inc) : inc[i] = key })

\* self.stats[key] += 1 for every key of inc
Bump(st, inc) == [k \in StatKeys |-> st[k] + Count(inc, k)]

NoFindings == [violations |-> << >>, warnings |-> << >>]

\* no report written yet
NoReport == [violations |-> << >>, warnings |-> << >>, summary |-> None]

DefaultChunkSize == 1000

\* the defaults of TTLCleaner.__init__
DefaultConfig ==
    [chunk_size |-> DefaultChunkSize, enable_validation |-> TRUE, memory_efficient |-> FALSE,
     enable_skos_xl |-> FALSE, autofix_broader |-> FALSE, warn_missing_narrower |-> FALSE]

\* "if self.memory_efficient and len(concepts) > self.chunk_size"
UseChunks(list) == config.memory_efficient /\ Len(list) > config.chunk_size

\* TTLCleaner.__init__: the fields of a new cleaner object
NewInstance ==
    /\ stats = [k \in StatKeys |-> 0]
    /\ change_log = << >>
    /\ validation_violations = << >>
    /\ validation_warnings = << >>
    /\ validation_infos = << >>
    /\ base_declaration = None
    /\ concept_scheme = None
    /\ base_uri = None
    /\ processed_chunks = 0

\* the locals of clean_ttl_file at entry
NewCall ==
    /\ pc = "read"
    /\ concepts = << >>
    /\ cleaned_concepts = << >>
    /\ returned = NoFindings
    /\ calls = << >>
    /\ all_violations = << >>
    /\ all_warnings = << >>
    /\ output = None
    /\ report = NoReport
    /\ result = "none"

\* TTLCleaner.__init__ as a step: a new cleaner object replaces the old one
Construct ==
    /\ stats' = [k \in StatKeys |-> 0]
    /\ change_log' = << >>
    /\ validation_violations' = << >>
    /\ validation_warnings' = << >>
    /\ validation_infos' = << >>
    /\ base_declaration' = None
    /\ concept_scheme' = None
    /\ base_uri' = None
    /\ processed_chunks' = 0

\* entry of clean_ttl_file as a step: fresh locals
Call ==
    /\ pc' = "read"
    /\ concepts' = << >>
    /\ cleaned_concepts' = << >>
    /\ returned' = NoFindings
    /\ calls' = << >>
    /\ all_violations' = << >>
    /\ all_warnings' = << >>
    /\ output' = None
    /\ report' = NoReport
    /\ result' = "none"

\* "if not content: return False"
ReturnEmpty ==
    /\ pc = "read"
    /\ content = << >>
    /\ pc' = "done"
    /\ result' = "False"
    /\ UNCHANGED << config, calls, instance, content, concepts, cleaned_concepts, returned,
                    all_violations, all_warnings, output, report, pending, generation, runs,
                    previous >>

\* an extraction that writes the log entries of the blocks without their counters
ExtractedUncounted(b, blocks, parsed) ==
    /\ base_uri' = b.base_uri
    /\ base_declaration' = b.base_declaration
    /\ concept_scheme' = extract_metadata(content, concept_scheme)
    /\ stats' = [stats EXCEPT !["total_concepts"] = Len(blocks)]
    /\ change_log' = change_log \o parsed.log
    /\ concepts' = parsed.val

\* the assignments of _extract_concepts: b is the result of
\* _extract_base_uri, blocks the concept blocks, parsed the parsed blocks
Extracted(b, blocks, parsed) ==
    /\ base_uri' = b.base_uri
    /\ base_declaration' = b.base_declaration
    /\ concept_scheme' = extract_metadata(content, concept_scheme)
    /\ stats' = Bump([stats EXCEPT !["total_concepts"] = Len(blocks)], parsed.inc)
    /\ change_log' = change_log \o parsed.log
    /\ concepts' = parsed.val

\* the loop over the blocks, with self.base_uri already set
ExtractBlocks(b, blocks) == Extracted(b, blocks, ParseBlocks(blocks, b.base_uri))

\* TTLCleaner._extract_concepts
ExtractConcepts ==
    /\ pc = "read"
    /\ content # << >>
    /\ ExtractBlocks(extract_base_uri(content, base_declaration),
                     split_into_concept_blocks(content))
    /\ pc' = "extracted"
    /\ UNCHANGED << config, calls, validation_violations, validation_warnings, validation_infos,
                    processed_chunks, content, cleaned_concepts, returned, all_violations,
                    all_warnings, output, report, result, pending, generation, runs, previous >>

\* cleaned_concepts = self._clean_concepts(concepts)
CleanConcepts ==
    /\ pc = "extracted"
    /\ ~UseChunks(concepts)
    /\ LET r == clean_concepts(concepts)
       IN /\ cleaned_concepts' = r.val
          /\ stats' = Bump(stats, r.inc)
          /\ change_log' = change_log \o r.log
    /\ pc' = "cleaned"
    /\ UNCHANGED << config, calls, validation_violations, validation_warnings, validation_infos,
                    base_declaration, concept_scheme, base_uri, processed_chunks, content,
                    concepts, returned, all_violations, all_warnings, output, report, result,
                    pending, generation, runs, previous >>

\* cleaned_concepts = self._clean_concepts_chunked(concepts)
CleanConceptsChunked ==
    /\ pc = "extracted"
    /\ UseChunks(concepts)
    /\ LET r == clean_concepts_chunked(concepts, config.chunk_size)
       IN /\ cleaned_concepts' = r.val
          /\ stats' = Bump(stats, r.inc)
          /\ change_log' = change_log \o r.log
          /\ processed_chunks' = processed_chunks + r.chunks
    /\ pc' = "cleaned"
    /\ UNCHANGED << config, calls, validation_violations, validation_warnings, validation_infos,
                    base_declaration, concept_scheme, base_uri, content, concepts, returned,
                    all_violations, all_warnings, output, report, result, pending, generation, runs,
                    previous >>

\* a call of the function name on the list arg; whole: arg is the full list
Invocation(name, arg, list) ==
    [function |-> name, size |-> Len(arg), whole |-> arg = list, completed |-> TRUE]

\* the call raised an exception
Raising(call) == [call EXCEPT !.completed = FALSE]

\* "if self.autofix_broader: added = self._apply_hierarchy_autofix(cleaned_concepts)"
ApplyAutofix ==
    /\ pc = "cleaned"
    /\ config.autofix_broader
    /\ calls' = Append(calls, Invocation("_apply_hierarchy_autofix", cleaned_concepts,
                                         cleaned_concepts))
    /\ LET r == apply_hierarchy_autofix(cleaned_concepts)
       IN /\ cleaned_concepts' = r.val
          /\ change_log' = change_log \o r.log
    /\ pc' = "autofixed"
    /\ UNCHANGED << config, stats, validation_violations, validation_warnings,
                    validation_infos, base_declaration, concept_scheme, base_uri,
                    processed_chunks, content, concepts, returned, all_violations,
                    all_warnings, output, report, result, pending, generation, runs, previous >>

\* an exception inside _apply_hierarchy_autofix after m of its log entries:
\* "except Exception as e: raise", then "except Exception as e: return False"
AutofixRaises ==
    /\ pc = "cleaned"
    /\ config.autofix_broader
    /\ \E m \in 0..Len(apply_hierarchy_autofix(cleaned_concepts).log) :
          change_log' = change_log
                        \o SubSeq(apply_hierarchy_autofix(cleaned_concepts).log, 1, m)
    /\ calls' = Append(calls, Raising(Invocation("_apply_hierarchy_autofix",
                                                 cleaned_concepts, cleaned_concepts)))
    /\ pc' = "done"
    /\ result' = "False"
    /\ UNCHANGED << config, stats, validation_violations, validation_warnings,
                    validation_infos, base_declaration, concept_scheme, base_uri,
                    processed_chunks, content, concepts, cleaned_concepts, returned,
                    all_violations, all_warnings, output, report, pending, generation, runs,
                    previous >>

\* autofix_broader is off
SkipAutofix ==
    /\ pc = "cleaned"
    /\ ~config.autofix_broader
    /\ pc' = "autofixed"
    /\ UNCHANGED << config, calls, instance, content, concepts, cleaned_concepts, returned,
                    all_violations, all_warnings, output, report, result, pending, generation, runs,
                    previous >>

\* all_violations, all_warnings after "extend" with the results of every call
Extend(parts) ==
    [violations |-> Flatten([k \in 1..Len(parts) |-> parts[k].violations]),
     warnings |-> Flatten([k \in 1..Len(parts) |-> parts[k].warnings])]

\* the three per-chunk families run on one list of concepts
LocalFamilies(list) ==
    Extend(<< validate_skos_integrity(list), validate_semantic_relations(list),
              validate_datatypes_and_uris(list) >>)

\* the families the standard branch runs before the two global ones: 1-3 and
\* the SKOS-XL family "if self.enable_skos_xl"
StandardFamilies(list) ==
    Extend(<< validate_skos_integrity(list), validate_semantic_relations(list),
              validate_datatypes_and_uris(list),
              IF config.enable_skos_xl
              THEN validate_skos_xl_labels(list, config.enable_skos_xl) ELSE NoFindings >>)

\* the findings of the two global families, with the infos of the first
WithInfos(h, s) ==
    [violations |-> h.violations \o s.violations,
     warnings |-> h.warnings \o s.warnings,
     infos |-> h.infos]

\* the two families that need all concepts
GlobalFamilies(list) ==
    WithInfos(validate_hierarchy_gaps(list, config.warn_missing_narrower),
              validate_scheme_consistency(list, concept_scheme, base_uri))

\* local findings first, then the global ones
LocalThenGlobal(l, g) ==
    [violations |-> l.violations \o g.violations,
     warnings |-> l.warnings \o g.warnings,
     infos |-> g.infos]

\* concepts[i:i + chunk_size] for i in range(0, len(concepts), chunk_size)
ChunksOf(list, chunk_size) ==
    [k \in 1..((Len(list) + chunk_size - 1) \div chunk_size) |->
        SubSeq(list, (k - 1) * chunk_size + 1, Min(k * chunk_size, Len(list)))]

\* a chunked validation that validates the first chunk only
FirstChunkOnly(chunks) ==
    IF chunks = << >> THEN Extend(<< >>) ELSE LocalFamilies(chunks[1])

\* the loop "for i in range(0, len(concepts), self.chunk_size)" of the chunked validation
ChunkFamilies(chunks) == Extend([k \in 1..Len(chunks) |-> LocalFamilies(chunks[k])])

\* TTLCleaner._validate_concepts_chunked
validate_concepts_chunked(list) ==
    LocalThenGlobal(ChunkFamilies(ChunksOf(list, config.chunk_size)), GlobalFamilies(list))

\* the calls of one chunk, in the order of the loop body
ChunkPlan(chunk, list) ==
    << Invocation("_validate_skos_integrity", chunk, list),
       Invocation("_validate_semantic_relations", chunk, list),
       Invocation("_validate_datatypes_and_uris", chunk, list) >>

\* the calls of the two families that follow the per-chunk ones
GlobalPlan(arg, list) ==
    << Invocation("_validate_hierarchy_gaps", arg, list),
       Invocation("_validate_scheme_consistency", arg, list) >>

\* the calls of the standard branch, in the order of the code
StandardPlan(list) ==
    ChunkPlan(list, list)
    \o (IF config.enable_skos_xl
        THEN << Invocation("_validate_skos_xl_labels", list, list) >> ELSE << >>)
    \o GlobalPlan(list, list)

\* a chunked validation that runs the two global families on every chunk
GlobalPerChunk(chunks, list) ==
    Flatten([k \in 1..Len(chunks) |-> ChunkPlan(chunks[k], list) \o GlobalPlan(chunks[k], list)])

\* the calls of _validate_concepts_chunked, in the order of the code
ChunkedPlan(chunks, list) ==
    Flatten([k \in 1..Len(chunks) |-> ChunkPlan(chunks[k], list)]) \o GlobalPlan(list, list)

\* the calls the validation of this run makes when nothing is raised
ValidationPlan(list) ==
    IF UseChunks(list) THEN ChunkedPlan(ChunksOf(list, config.chunk_size), list)
    ELSE StandardPlan(list)

\* the standard branch: every family's return value is added to
\* all_violations, all_warnings, which are stored on the object
StoreAll(r) ==
    /\ returned' = [violations |-> r.violations, warnings |-> r.warnings]
    /\ all_violations' = r.violations
    /\ all_warnings' = r.warnings
    /\ validation_infos' = r.infos
    /\ validation_violations' = r.violations
    /\ validation_warnings' = r.warnings

\* a validation that drops the first concept of the list it was given
ValidateDropping ==
    /\ pc = "autofixed"
    /\ config.enable_validation
    /\ ~UseChunks(cleaned_concepts)
    /\ calls' = calls \o ValidationPlan(cleaned_concepts)
    /\ StoreAll(LocalThenGlobal(StandardFamilies(cleaned_concepts),
                                GlobalFamilies(cleaned_concepts)))
    /\ cleaned_concepts' = IF cleaned_concepts = << >> THEN << >> ELSE Tail(cleaned_concepts)
    /\ pc' = "validated"
    /\ UNCHANGED << config, stats, change_log, base_declaration, concept_scheme, base_uri,
                    processed_chunks, content, concepts, output, report,
                    result, pending, generation, runs, previous >>

ValidateStandard ==
    /\ pc = "autofixed"
    /\ config.enable_validation
    /\ ~UseChunks(cleaned_concepts)
    /\ calls' = calls \o ValidationPlan(cleaned_concepts)
    /\ StoreAll(LocalThenGlobal(StandardFamilies(cleaned_concepts),
                                GlobalFamilies(cleaned_concepts)))
    /\ pc' = "validated"
    /\ UNCHANGED << config, stats, change_log, base_declaration, concept_scheme, base_uri,
                    processed_chunks, content, concepts, cleaned_concepts, output, report,
                    result, pending, generation, runs, previous >>

\* the chunked branch: "violations, warnings = self._validate_concepts_chunked(...)";
\* all_violations, all_warnings stay empty and are stored on the object
StoreNone(r) ==
    /\ returned' = [violations |-> r.violations, warnings |-> r.warnings]
    /\ validation_infos' = r.infos
    /\ all_violations' = << >>
    /\ all_warnings' = << >>
    /\ validation_violations' = << >>
    /\ validation_warnings' = << >>

ValidateChunked ==
    /\ pc = "autofixed"
    /\ config.enable_validation
    /\ UseChunks(cleaned_concepts)
    /\ calls' = calls \o ValidationPlan(cleaned_concepts)
    /\ StoreNone(validate_concepts_chunked(cleaned_concepts))
    /\ pc' = "validated"
    /\ UNCHANGED << config, stats, change_log, base_declaration, concept_scheme, base_uri,
                    processed_chunks, content, concepts, cleaned_concepts, output, report,
                    result, pending, generation, runs, previous >>

\* the infos the object holds when call k of the plan raises: the list is
\* emptied before the first call and filled by _validate_hierarchy_gaps
InfosBefore(plan, k, list) ==
    IF \E j \in 1..(k - 1) : plan[j].function = "_validate_hierarchy_gaps"
    THEN validate_hierarchy_gaps(list, config.warn_missing_narrower).infos
    ELSE << >>

\* an exception that is caught and dropped
SwallowAt(plan, k) ==
    /\ calls' = calls \o SubSeq(plan, 1, k - 1) \o << Raising(plan[k]) >>
    /\ validation_infos' = InfosBefore(plan, k, cleaned_concepts)
    /\ pc' = "validated"
    /\ result' = result

\* call k of the plan raises: the exception passes the "except: raise" of
\* the family and reaches "except Exception as e: return False"
RaiseAt(plan, k) ==
    /\ calls' = calls \o SubSeq(plan, 1, k - 1) \o << Raising(plan[k]) >>
    /\ validation_infos' = InfosBefore(plan, k, cleaned_concepts)
    /\ pc' = "done"
    /\ result' = "False"

\* an exception inside a validation family, in either branch
ValidationRaises ==
    /\ pc = "autofixed"
    /\ config.enable_validation
    /\ \E k \in 1..Len(ValidationPlan(cleaned_concepts)) :
          RaiseAt(ValidationPlan(cleaned_concepts), k)
    /\ UNCHANGED << config, stats, change_log, validation_violations, validation_warnings,
                    base_declaration, concept_scheme, base_uri, processed_chunks, content,
                    concepts, cleaned_concepts, returned, all_violations, all_warnings,
                    output, report, pending, generation, runs, previous >>

\* enable_validation is off: only "self.validation_infos = []" runs
ValidationDisabled ==
    /\ pc = "autofixed"
    /\ ~config.enable_validation
    /\ all_violations' = << >>
    /\ all_warnings' = << >>
    /\ validation_infos' = << >>
    /\ pc' = "validated"
    /\ UNCHANGED << config, calls, stats, change_log, validation_violations, validation_warnings,
                    base_declaration, concept_scheme, base_uri, processed_chunks, content,
                    concepts, cleaned_concepts, returned, output, report, result, pending,
                    generation, runs, previous >>

\* TTLCleaner._write_cleaned_file
WriteCleanedFile ==
    /\ pc = "validated"
    /\ LET r == generate_cleaned_content(cleaned_concepts, content, base_declaration,
                                         concept_scheme, base_uri)
       IN /\ output' = r.val
          /\ stats' = Bump(stats, r.inc)
          /\ change_log' = change_log \o r.log
    /\ pc' = "written"
    /\ UNCHANGED << config, calls, validation_violations, validation_warnings, validation_infos,
                    base_declaration, concept_scheme, base_uri, processed_chunks, content,
                    concepts, cleaned_concepts, returned, all_violations, all_warnings,
                    report, result, pending, generation, runs, previous >>

\* a run that fails when the validation found violations
FailOnViolations ==
    /\ pc = "written"
    /\ report' = [violations |-> all_violations, warnings |-> all_warnings,
                  summary |-> summarize_validation_counts(all_violations, all_warnings,
                                                          validation_infos)]
    /\ result' = IF all_violations = << >> THEN "True" ELSE "False"
    /\ pc' = "done"
    /\ UNCHANGED << config, calls, instance, content, concepts, cleaned_concepts, returned,
                    all_violations, all_warnings, output, pending, generation, runs, previous >>

\* the report writers receive all_violations, all_warnings and
\* self.validation_infos and summarize them by check; then "return True"
WriteReports ==
    /\ pc = "written"
    /\ report' = [violations |-> all_violations, warnings |-> all_warnings,
                  summary |-> summarize_validation_counts(all_violations, all_warnings,
                                                          validation_infos)]
    /\ result' = "True"
    /\ pc' = "done"
    /\ UNCHANGED << config, calls, instance, content, concepts, cleaned_concepts, returned,
                    all_violations, all_warnings, output, pending, generation, runs, previous >>

\* the same cleaner object is called again, on the next document
NextDocument ==
    /\ pc = "done"
    /\ pending # << >>
    /\ content' = Head(pending)
    /\ pending' = Tail(pending)
    /\ runs' = runs + 1
    /\ Call
    /\ UNCHANGED << config, instance, generation, previous >>

\* how often a written file is read again by a new cleaner
MaxGenerations == 1

\* a new TTLCleaner with the same arguments is called on the file just written
FeedBack ==
    /\ pc = "done"
    /\ pending = << >>
    /\ result = "True"
    /\ generation < MaxGenerations
    /\ generation' = generation + 1
    /\ runs' = 1
    /\ previous' = cleaned_concepts
    /\ content' = output
    /\ Construct
    /\ Call
    /\ UNCHANGED << config, pending >>

\* ------------------------------------------------------------------------
\* Documents
\* ------------------------------------------------------------------------
\* longest document of a family, in blocks
MaxBlocks == 3

\* http://<ns>/<local>
Abs(ns, local) == << "http", ":", "/", "/", ns, "/" >> \o local

Ref(u) == << "<" >> \o u \o << ">" >>

Quoted(text, lang) ==
    << "\"" >> \o text \o << "\"" >> \o (IF lang = None THEN << >> ELSE << "@" >> \o lang)

Statement(pred, objects) == Indent \o << "skos", ":", pred, " " >> \o objects

\* the statements of a block, each closed by " ;" and the last one by " ."
Closed(statements) ==
    [k \in 1..Len(statements) |->
        statements[k] \o (IF k = Len(statements) THEN << " ", "." >> ELSE << " ", ";" >>)]

\* one concept block followed by a blank line
Block(subject, label, statements) ==
    << subject \o ConceptDecl >>
    \o Closed(<< Statement("prefLabel", label) >> \o statements)
    \o << << >> >>

\* one ConceptScheme block followed by a blank line
SchemeBlock(subject, statements) ==
    << subject \o << " ", "a", " ", "skos", ":", "ConceptScheme", " ", ";" >> >>
    \o Closed(statements)
    \o << << >> >>

BaseLine(base) == << << "@base", " " >> \o Ref(base) \o << " ", "." >>, << >> >>

Doc(blocks) == Flatten(blocks)

\* the elements of the index set S in ascending or descending order
RECURSIVE Ordered(_, _)
Ordered(S, ascending) ==
    IF S = {} THEN << >>
    ELSE LET m == CHOOSE x \in S : \A y \in S : IF ascending THEN x <= y ELSE x >= y
         IN << m >> \o Ordered(S \ {m}, ascending)

\* the documents made of at most MaxBlocks blocks of the list, in list order or reversed
Selections(blocks) ==
    { Doc([k \in 1..Len(o) |-> blocks[o[k]]]) :
        o \in { Ordered(S, asc) : S \in { T \in SUBSET (1..Len(blocks)) :
                                            T # {} /\ Cardinality(T) <= MaxBlocks },
                                  asc \in BOOLEAN } }

\* the documents made of 1..MaxBlocks blocks of the set, repetitions allowed
Repetitions(blocks) ==
    UNION { { Doc(f) : f \in [1..n -> blocks] } : n \in 1..MaxBlocks }

Inputs(documents, configs) ==
    { [content |-> d, config |-> c, pending |-> << >>] : d \in documents, c \in configs }

En(text) == Quoted(<< text >>, << "en" >>)

X(code) == Ref(Abs("x", code))

Y(code) == Ref(Abs("y", code))

Chunked(n) == [DefaultConfig EXCEPT !.memory_efficient = TRUE, !.chunk_size = n]

Autofix == [DefaultConfig EXCEPT !.autofix_broader = TRUE]

Unvalidated == [DefaultConfig EXCEPT !.enable_validation = FALSE]

WithXl == [DefaultConfig EXCEPT !.enable_skos_xl = TRUE]

\* repeated subjects, with and without a usable prefLabel, also cut into chunks
DedupBlocks ==
    { Block(X(<< "1" >>), En("A"), << >>), Block(X(<< "1" >>), En("B"), << >>),
      Block(X(<< "3", "1" >>), En("A"), << >>),
      Block(X(<< "1" >>), Quoted(<< " " >>, None), << >>) }

DedupInputs == Inputs(Repetitions(DedupBlocks), { DefaultConfig, Chunked(1), Chunked(2) })

\* coded concepts, with and without skos:broader links
HierarchyBlocks ==
    << Block(X(<< "3" >>), En("A"), << >>),
       Block(X(<< "3", "1" >>), En("A"), << >>),
       Block(X(<< "3", "1" >>), En("B"), << Statement("broader", X(<< "3" >>)) >>),
       Block(X(<< "3", "1", "1" >>), En("A"), << >>),
       Block(X(<< "3", "1", "1" >>), En("B"), << Statement("broader", X(<< "3", "1" >>)) >>),
       Block(X(<< "3", "1", "1" >>), En("C"), << Statement("broader", X(<< "3" >>)) >>),
       Block(Y(<< "3", "1", "1" >>), En("A"), << Statement("broader", X(<< "3", "1" >>)) >>),
       Block(X(<< "3", "1", "1" >>), En("D"), << Statement("broader", X(<< "9" >>)) >>),
       Block(X(<< "4", "2", "-", "1", "0" >>), En("A"), << >>),
       Block(X(<< "4", "2" >>), En("A"), << >>),
       Block(Ref(Abs("x", << "3", "1", " " >>)), En("A"), << >>),
       Block(Ref(Abs("x", << "3", "1", "1", " " >>)), En("A"), << >>) >>

HierarchyInputs == Inputs(Selections(HierarchyBlocks), { DefaultConfig, Autofix })

\* two concepts and the links between them
Links(other) ==
    { << >>,
      << Statement("broader", other) >>,
      << Statement("related", other) >>,
      << Statement("broader", other), Statement("related", other) >>,
      << Statement("narrower", other) >> }

RelationDocuments ==
    { Doc(<< Block(X(<< "1" >>), En("A"), p), Block(X(<< "2" >>), En("B"), q) >>) :
        p \in Links(X(<< "2" >>)), q \in Links(X(<< "1" >>)) }

RelationInputs == Inputs(RelationDocuments, { DefaultConfig, Chunked(1) })

\* a ConceptScheme, its hasTopConcept statements and the membership of the targets
SchemeUri == X(<< "s" >>)

TopConceptStatements ==
    { << Statement("hasTopConcept", X(<< "1" >>)) >>,
      << Statement("hasTopConcept", X(<< "1" >>) \o << ",", " " >> \o X(<< "2" >>)) >>,
      << Statement("hasTopConcept", X(<< "1" >>)), Statement("hasTopConcept", X(<< "2" >>)) >>,
      << Statement("hasTopConcept", X(<< "9" >>)) >> }

Memberships ==
    { << >>, << Statement("inScheme", SchemeUri) >>, << Statement("topConceptOf", SchemeUri) >> }

SchemeDocuments ==
    { (IF based THEN BaseLine(Abs("x", << >>)) ELSE << >>)
      \o Doc(<< SchemeBlock(SchemeUri, t),
                Block(IF based THEN Ref(<< "1" >>) ELSE X(<< "1" >>), En("A"), m1) >>)
      \o second :
        based \in BOOLEAN, t \in TopConceptStatements, m1 \in Memberships,
        second \in { << >> } \cup { Block(X(<< "2" >>), En("B"), m2) :
                                      m2 \in { << >>, << Statement("inScheme", SchemeUri) >> } } }

SchemeInputs == Inputs(SchemeDocuments, { DefaultConfig, Chunked(1) })

\* subjects in every spelling the URI normalizer knows, with labels that need cleaning
Subjects ==
    { X(<< "1" >>), Ref(<< "http", ":", "/", "/", "a", ".", "org", "/", "1" >>),
      << "esco", ":", "1" >>, << "q", ":", "1" >>, Ref(<< "1" >>), Abs("x", << "1" >>),
      Ref(<< "urn", ":", "x", ":", "1" >>) }

Labels == { En("A"), Quoted(<< "Foo", ",", "Bar" >>, << "en" >>), Quoted(<< " ", "Ã¤", " " >>, None) }

Bases == { None, Abs("x", << "ns", "/" >>), Abs("x", << "ns" >>) }

SubjectDocuments ==
    { (IF b = None THEN << >> ELSE BaseLine(b)) \o Block(subject, l, << >>) :
        b \in Bases, subject \in Subjects, l \in Labels }

\* a subject that needs a fix, written twice
RepeatedSubjectDocuments ==
    { Block(subject, En("A"), << >>) \o Block(subject, En("B"), << >>) :
        subject \in { << "esco", ":", "1" >>, Ref(<< "1" >>) } }

SubjectInputs == Inputs(SubjectDocuments \cup RepeatedSubjectDocuments, { DefaultConfig })

\* concepts with SKOS-XL statements
XlStatement(pred, objects) == Indent \o << "skosxl", ":", pred, " " >> \o objects

XlStatements ==
    { << >>,
      << XlStatement("literalForm", En("A")) >>,
      << XlStatement("prefLabel", X(<< "2" >>)) >>,
      << XlStatement("prefLabel", X(<< "1" >>)), XlStatement("literalForm", En("A")) >> }

XlDocuments ==
    { Doc(<< Block(X(<< "1" >>), En("A"), p), Block(X(<< "2" >>), En("B"), q) >>) :
        p \in XlStatements, q \in XlStatements }

XlInputs ==
    Inputs(XlDocuments,
           { DefaultConfig, WithXl, [WithXl EXCEPT !.memory_efficient = TRUE, !.chunk_size = 1] })

\* one cleaner object called on two documents in a row
DocumentA ==
    BaseLine(Abs("a", << >>))
    \o Doc(<< SchemeBlock(Ref(Abs("a", << "s" >>)),
                          << Statement("hasTopConcept", Ref(Abs("a", << "1" >>))) >>),
              Block(Ref(<< "1" >>), En("A"),
                    << Statement("inScheme", Ref(Abs("a", << "s" >>))) >>) >>)

DocumentB == Block(X(<< "2" >>), En("B"), << >>)

DocumentC ==
    BaseLine(Abs("x", << >>))
    \o Doc(<< SchemeBlock(SchemeUri, << Statement("hasTopConcept", X(<< "1" >>)) >>),
              Block(Ref(<< "1" >>), En("A"), << >>) >>)

ReuseInputs ==
    { [content |-> a, config |-> c, pending |-> << b >>] :
        a \in { DocumentA, DocumentB, DocumentC, << >> },
        b \in { DocumentA, DocumentB, DocumentC },
        c \in { DefaultConfig, Unvalidated } }

\* pieces of documents for the segmenter: a subject line alone, a subject
\* line with an unterminated statement, a lone '.', a lone '.' followed by a
\* statement outside any block, a comment and a blank line before a statement
SegmentPieces ==
    { << X(<< "1" >>) \o ConceptDecl >>,
      << X(<< "2" >>) \o ConceptDecl, Statement("prefLabel", En("A")) >>,
      << << " ", "." >> >>,
      << << "." >>, Statement("altLabel", En("B")) \o << " ", "." >> >>,
      << << "#", " ", "c" >>, << >>, Statement("prefLabel", En("C")) >> }

SegmentInputs == Inputs(Repetitions(SegmentPieces), { DefaultConfig })

\* two values of one predicate joined by a comma
Pair(a, b) == En(a) \o << " ", ",", " " >> \o En(b)

\* statements that repeat a label or carry a list of values
LabelStatements ==
    { Statement("prefLabel", En("A")), Statement("prefLabel", Pair("A", "B")),
      Statement("altLabel", En("B")), Statement("altLabel", Pair("B", "C")),
      Statement("definition", Pair("D", "E")), Statement("note", Pair("D", "E")),
      Statement("example", En("D")) }

\* one concept with the label "A"@en and one or two of these statements
LabelDocuments ==
    { Block(X(<< "1" >>), En("A"), << a >>) : a \in LabelStatements }
    \cup { Block(X(<< "1" >>), En("A"), << a, b >>) : a, b \in LabelStatements }

LabelInputs == Inputs(LabelDocuments, { DefaultConfig })

\* two concepts, each with a plain label or a label that reads like a URI;
\* the second concept's code extends the first one's
UriLikeLabels == { En("A"), Quoted(<< "http", ":", "/", "/", "a" >>, << "en" >>) }

WarningDocuments ==
    { Doc(<< Block(X(<< "3" >>), l1, << >>), Block(X(<< "3", "1" >>), l2, << >>) >>) :
        l1 \in UriLikeLabels, l2 \in UriLikeLabels }

WarningInputs == Inputs(WarningDocuments, { Chunked(1) })

\* a concept without a code token next to a parent and a child code
UncodedDocuments ==
    { Doc(<< Block(X(<< "a" >>), En("A"), p),
             Block(X(<< "3" >>), En("A"), << >>),
             Block(X(<< "3", "1" >>), En("A"), << >>) >>) :
        p \in { << >>, << Statement("broader", X(<< "3" >>)) >> } }

UncodedInputs == Inputs(UncodedDocuments, { Autofix })

AllInputs ==
    DedupInputs \cup HierarchyInputs \cup RelationInputs \cup SchemeInputs
    \cup SubjectInputs \cup ReuseInputs \cup XlInputs \cup SegmentInputs
    \cup LabelInputs \cup WarningInputs \cup UncodedInputs

\* ------------------------------------------------------------------------
\* The state machine
\* ------------------------------------------------------------------------
Init ==
    /\ \E input \in AllInputs :
        /\ content = input.content
        /\ config = input.config
        /\ pending = input.pending
    /\ NewInstance
    /\ NewCall
    /\ generation = 0
    /\ runs = 1
    /\ previous = << >>

Next ==
    \/ ReturnEmpty
    \/ ExtractConcepts
    \/ CleanConcepts
    \/ CleanConceptsChunked
    \/ ApplyAutofix
    \/ AutofixRaises
    \/ SkipAutofix
    \/ ValidateStandard
    \/ ValidateChunked
    \/ ValidationRaises
    \/ ValidationDisabled
    \/ WriteCleanedFile
    \/ WriteReports
    \/ NextDocument
    \/ FeedBack

Spec == Init /\ [][Next]_vars

Positions == { "read", "extracted", "cleaned", "autofixed", "validated", "written", "done" }

\* a call that has begun moves on to another position
Advance == pc # "done" /\ pc' \in Positions \ { pc }

\* clean_ttl_file is synchronous and single-threaded, without suspension
\* points: a call that has begun does not stop between two statements; it
\* runs the next one or is ended by an exception
FairSpec == Init /\ [][Next]_vars /\ WF_pc(Advance)

\* ------------------------------------------------------------------------
\* Properties
\* ------------------------------------------------------------------------
Uris(list) == [k \in 1..Len(list) |-> list[k].uri]

NoRepeats(seq) == \A i, j \in 1..Len(seq) : i # j => seq[i] # seq[j]

\* C1: after the cleaning phase no two concepts of cleaned_concepts share a
\* URI, whether the standard or the chunked deduplication ran
C1_UniqueAfterCleaning == pc = "cleaned" => NoRepeats(Uris(cleaned_concepts))

\* C2: once validation has run, every violation and warning a family
\* returned is in validation_violations / validation_warnings, and in the
\* lists handed to the report writers when the call ends
C2_FindingsSurfaced ==
    /\ pc \in { "validated", "written", "done" } /\ result # "False" /\ config.enable_validation
       => /\ Range(returned.violations) \subseteq Range(validation_violations)
          /\ Range(returned.warnings) \subseteq Range(validation_warnings)
    /\ pc = "done" /\ result = "True" /\ config.enable_validation
       => /\ Range(returned.violations) \subseteq Range(report.violations)
          /\ Range(returned.warnings) \subseteq Range(report.warnings)

\* blocks of the document whose prefLabel extraction leaves no label
Unlabelled(blocks) ==
    { k \in 1..Len(blocks) : extract_labels(Content(blocks[k]), "prefLabel").val = << >> }

\* C3: every concept the extraction yields, and every concept kept
\* afterwards, has a non-empty prefLabels list; a block with no surviving
\* prefLabel is dropped and concepts_without_preflabel goes up by one for it
C3_RejectionInvariant ==
    [][/\ \A k \in 1..Len(concepts') : concepts'[k].prefLabels # << >>
       /\ \A k \in 1..Len(cleaned_concepts') : cleaned_concepts'[k].prefLabels # << >>
       /\ pc = "read" /\ pc' = "extracted"
          => LET blocks == split_into_concept_blocks(content)
                 dropped == Cardinality(Unlabelled(blocks))
             IN /\ Len(concepts') = Len(blocks) - dropped
                /\ stats'["concepts_without_preflabel"]
                     = stats["concepts_without_preflabel"] + dropped]_vars

\* C3 happens: a document was extracted of which one block was dropped and
\* another one kept
C3_Witness ==
    /\ pc = "extracted"
    /\ stats["concepts_without_preflabel"] > 0
    /\ concepts # << >>

\* the members of seq that are the first with their URI, in order
FirstOccurrences(seq) ==
    LET first == { k \in 1..Len(seq) : \A j \in 1..(k - 1) : seq[j].uri # seq[k].uri }
        order == Ordered(first, TRUE)
    IN [k \in 1..Len(order) |-> seq[order[k]]]

\* C4: _clean_concepts returns the first concept of every URI, unchanged
\* and in input order (applied to the whole list on the standard path and to
\* each chunk on the chunked path), and duplicates_removed goes up by the
\* number of concepts it left out
C4_FirstSeenWins ==
    [][pc = "extracted" /\ pc' = "cleaned"
       => /\ cleaned_concepts'
               = IF UseChunks(concepts)
                 THEN Flatten([k \in 1..Len(ChunksOf(concepts, config.chunk_size)) |->
                                 FirstOccurrences(ChunksOf(concepts, config.chunk_size)[k])])
                 ELSE FirstOccurrences(concepts)
          /\ stats'["duplicates_removed"]
               = stats["duplicates_removed"] + Len(concepts) - Len(cleaned_concepts')]_vars

\* C4 happens: the standard path removed a duplicate that differs from the
\* concept kept for its URI
C4_Witness ==
    /\ pc = "cleaned"
    /\ ~UseChunks(concepts)
    /\ stats["duplicates_removed"] > 0
    /\ \E i, j \in 1..Len(concepts) :
          i < j /\ concepts[i].uri = concepts[j].uri /\ concepts[i] # concepts[j]

\* C5: the base URI, the base declaration and the ConceptScheme block a run
\* uses are those of the document it reads, and absent if it declares none
C5_MetadataRunScoped ==
    pc \in { "extracted", "cleaned", "autofixed", "validated", "written", "done" }
    /\ result # "False"
    => /\ base_uri = extract_base_uri(content, None).base_uri
       /\ base_declaration = extract_base_uri(content, None).base_declaration
       /\ concept_scheme = extract_metadata(content, None)

\* the 'Inconsistent hierarchy' violations _validate_hierarchy_gaps returns
Inconsistent(list) ==
    { v \in Range(validate_hierarchy_gaps(list, config.warn_missing_narrower).violations) :
        v.kind = "Inconsistent hierarchy" }

\* the concept carries code 311 and no skos:broader statement, and a concept
\* with code 31 is in the list
Orphan311(list, i) ==
    /\ extract_numeric_code(list[i].uri) = << "3", "1", "1" >>
    /\ \A k \in 1..Len(list[i].other_properties) :
          ~HasSub(list[i].other_properties[k], BroaderKey)
    /\ \E j \in 1..Len(list) : extract_numeric_code(list[j].uri) = << "3", "1" >>

\* C6: after the autofix has run, _validate_hierarchy_gaps on the same list
\* returns no 'Inconsistent hierarchy' violation; a concept with code 311
\* and no skos:broader statement, where a concept with code 31 exists, gives
\* exactly one such violation before the autofix, and the autofix appends a
\* skos:broader statement to the concept with code 31 to it
C6_AutofixRemovesInconsistency ==
    [][pc = "cleaned" /\ pc' = "autofixed" /\ config.autofix_broader
       => /\ Inconsistent(cleaned_concepts') = {}
          /\ \A i \in 1..Len(cleaned_concepts) :
                Orphan311(cleaned_concepts, i)
                => /\ Cardinality({ v \in Inconsistent(cleaned_concepts) :
                                      v.detail = << "3", "1", "1" >> }) = 1
                   /\ cleaned_concepts'[i].other_properties
                        = Append(cleaned_concepts[i].other_properties,
                                 BroaderKey
                                 \o Ref(CodeToUri(cleaned_concepts, << "3", "1" >>)))]_vars

\* the codes of the targets of the skos:broader statements of one concept
OwnBroaderCodes(c) == TargetCodes(c, BroaderKey, << >>)

\* C7: the autofix appends to every coded concept none of whose own
\* skos:broader targets has a code among the candidate prefixes existing in
\* the graph, when such a prefix exists, exactly one 'skos:broader <P>' with
\* P the URI registered for the longest existing candidate prefix, and it
\* leaves every other concept as it is
C7_AutofixParentChoice ==
    [][pc = "cleaned" /\ pc' = "autofixed" /\ config.autofix_broader
       => /\ Len(cleaned_concepts') = Len(cleaned_concepts)
          /\ \A i \in 1..Len(cleaned_concepts) :
                LET c == cleaned_concepts[i]
                    code == extract_numeric_code(c.uri)
                    candidates == IF code = None THEN << >>
                                  ELSE ExistingPrefixes(cleaned_concepts, code)
                IN IF candidates # << >> /\ OwnBroaderCodes(c) \cap Range(candidates) = {}
                   THEN cleaned_concepts'[i]
                          = [c EXCEPT !.other_properties =
                               Append(@, BroaderKey
                                         \o Ref(CodeToUri(cleaned_concepts,
                                                          MaxByLen(candidates))))]
                   ELSE cleaned_concepts'[i] = c]_vars

\* C8: a run on the document the previous run emitted keeps the concepts of
\* that run and repairs nothing: encoding_issues_fixed, comma_fixes,
\* duplicates_removed and malformed_uris_fixed are 0
C8_Idempotence ==
    pc = "done" /\ generation >= 1 /\ result = "True"
    => /\ Uris(cleaned_concepts) = Uris(previous)
       /\ stats["encoding_issues_fixed"] = 0
       /\ stats["comma_fixes"] = 0
       /\ stats["duplicates_removed"] = 0
       /\ stats["malformed_uris_fixed"] = 0

\* concept a carries a skos:broader statement that points to concept b
DeclaresBroader(a, b) ==
    \E k \in 1..Len(a.other_properties) :
        /\ HasSub(a.other_properties[k], BroaderKey)
        /\ Ref(b.uri) \in Range(extract_uris_from_property(a.other_properties[k]))

\* C9: when two concepts of the validated list declare skos:broader to each
\* other, the validation returns a 'Simple cycle detected' warning for them
C9_MutualBroaderWarned ==
    pc = "validated" /\ config.enable_validation /\ ~UseChunks(cleaned_concepts)
    => \A i, j \in 1..Len(cleaned_concepts) :
          /\ i # j
          /\ DeclaresBroader(cleaned_concepts[i], cleaned_concepts[j])
          /\ DeclaresBroader(cleaned_concepts[j], cleaned_concepts[i])
          => \E w \in Range(returned.warnings) :
                /\ w.kind = "Simple cycle detected"
                /\ w.subject \in { cleaned_concepts[i].uri, cleaned_concepts[j].uri }

\* every target the hasTopConcept statements of the scheme block declare:
\* all <...> between the predicate and the ';' that closes the statement
DeclaredTopConcepts(scheme) ==
    UNION { LET closing == { j \in k..Len(scheme) : scheme[j] = ";" }
                stop == IF closing = {} THEN Len(scheme) ELSE First(closing)
            IN { Unbracket(t) : t \in Range(extract_uris_from_property(SubSeq(scheme, k, stop))) } :
            k \in { j \in 1..(Len(scheme) - 2) :
                      SubSeq(scheme, j, j + 2) = << "skos", ":", "hasTopConcept" >> } }

\* the violations of the given kind that name the URI
Naming(kind, uri) ==
    { k \in 1..Len(returned.violations) :
        returned.violations[k].kind = kind /\ returned.violations[k].subject = uri }

\* C10: for every target the captured ConceptScheme block declares as top
\* concept, also inside a comma-joined list, the validation returns a
\* violation if its canonical URI is no concept, and otherwise a violation if
\* the concept declares no inScheme of the scheme's subject (raw or
\* canonical); one declared target lacking the membership gives exactly one
\* violation naming it
C10_TopConceptIntegrity ==
    pc = "validated" /\ config.enable_validation /\ ~UseChunks(cleaned_concepts)
    /\ concept_scheme # None /\ SchemeSubject(concept_scheme) # None
    => LET subject == Unbracket(SchemeSubject(concept_scheme))
           expected == { Ref(subject), Ref(clean_uri(subject, base_uri)) }
           targets == DeclaredTopConcepts(concept_scheme)
       IN \A t \in targets :
            LET bare == clean_uri(Strip(t), base_uri) IN
            IF bare \notin Range(Uris(cleaned_concepts))
            THEN Naming("hasTopConcept points to non-Concept", bare) # {}
            ELSE SchemeTokens(cleaned_concepts, bare, InSchemeKey) \cap expected = {}
                 => /\ Naming("is hasTopConcept of", bare) # {}
                    /\ Cardinality(targets) = 1
                       => Cardinality(Naming("is hasTopConcept of", bare)) = 1

\* the sum of the numbers of a sequence
RECURSIVE SumSeq(_)
SumSeq(seq) == IF seq = << >> THEN 0 ELSE Head(seq) + SumSeq(Tail(seq))

\* C11: the summary a run reports has exactly the sixteen fixed categories,
\* every finding of the reported lists (SKOS-XL family included) is counted
\* in exactly one category, and the counts sum to the number of findings
C11_TotalClassification ==
    pc = "done" /\ result = "True"
    => LET msgs == report.violations \o report.warnings \o validation_infos IN
       /\ DOMAIN report.summary = { Categories[c].name : c \in 1..Len(Categories) }
       /\ Cardinality(DOMAIN report.summary) = 16
       /\ \A m \in 1..Len(msgs) :
             Cardinality({ c \in 1..Len(Categories) :
                             Matches(Categories[c], Message(msgs[m])) }) = 1
       /\ SumSeq([c \in 1..Len(Categories) |-> report.summary[Categories[c].name]])
            = Len(msgs)

\* the schemes that make an identifier absolute
AbsoluteSchemes == { "http", "https", "urn", "ftp" }

\* the identifier, without brackets, opens with an absolute scheme
HasAbsoluteScheme(u) == Len(u) >= 2 /\ u[1] \in AbsoluteSchemes /\ u[2] = ":"

\* C12: a concept whose subject, brackets stripped, already has an absolute
\* scheme (http, https, urn, ftp) gets that value unchanged as its URI,
\* with or without a base URI
C12_AbsoluteUnchanged ==
    pc = "extracted"
    => \A k \in 1..Len(split_into_concept_blocks(content)) :
          LET block == split_into_concept_blocks(content)[k]
              raw == RawUri(block)
          IN raw # None /\ HasAbsoluteScheme(Unbracket(Strip(raw)))
             => /\ clean_uri(raw, base_uri) = Unbracket(Strip(raw))
                /\ parse_concept_block(block, base_uri).val # None
                   => parse_concept_block(block, base_uri).val.uri = Unbracket(Strip(raw))

\* the identifier as written needs a prefix expansion (it has a ':' and does
\* not start with http), or a default namespace because no base URI is set
FixExpected(raw, base) ==
    LET inner == Unbracket(Strip(raw)) IN
    /\ ~(inner # << >> /\ inner[1] \in { "http", "https" })
    /\ Contains(inner, ":") \/ base = None

\* the blocks of the document that give a concept, in order
KeptBlocks(blocks) ==
    Ordered({ k \in 1..Len(blocks) : RawUri(blocks[k]) # None } \ Unlabelled(blocks), TRUE)

\* C13: a concept whose cleaned URI differs from the raw one carries the
\* issue 'URI fixed' exactly when the change is a prefix expansion or a
\* default-namespace injection without base URI, and malformed_uris_fixed
\* goes up by one for exactly those subjects; every other change leaves the
\* counter alone.  'esco:1' without base URI becomes the ESCO namespace + '1'.
C13_FixVersusNormalization ==
    [][pc = "read" /\ pc' = "extracted"
       => LET blocks == split_into_concept_blocks(content)
              kept == KeptBlocks(blocks)
          IN /\ Len(concepts') = Len(kept)
             /\ \A n \in 1..Len(kept) :
                   /\ ("URI fixed" \in Range(concepts'[n].issues))
                      <=> /\ concepts'[n].uri # RawUri(blocks[kept[n]])
                          /\ FixExpected(RawUri(blocks[kept[n]]), base_uri')
                   /\ RawUri(blocks[kept[n]]) = << "esco", ":", "1" >>
                      => concepts'[n].uri = EscoNamespace \o << "1" >>
             /\ stats'["malformed_uris_fixed"]
                  = stats["malformed_uris_fixed"]
                    + Cardinality({ k \in 1..Len(blocks) :
                                      /\ RawUri(blocks[k]) # None
                                      /\ FixExpected(RawUri(blocks[k]), base_uri') })]_vars

\* C13 happens: 'esco:1' was read without base URI and counted as a fix
C13_Witness ==
    /\ pc = "extracted"
    /\ base_uri = None
    /\ stats["malformed_uris_fixed"] = 1
    /\ \E n \in 1..Len(concepts) :
          /\ concepts[n].uri = EscoNamespace \o << "1" >>
          /\ "URI fixed" \in Range(concepts[n].issues)

\* some call of this run raised an exception
Raised == \E i \in 1..Len(calls) : ~calls[i].completed

\* the function was called in this run and returned
Completed(name) == \E i \in 1..Len(calls) : calls[i].function = name /\ calls[i].completed

CoreFamilies ==
    { "_validate_skos_integrity", "_validate_semantic_relations",
      "_validate_datatypes_and_uris", "_validate_hierarchy_gaps",
      "_validate_scheme_consistency" }

\* the run that raised ended with False and wrote nothing; a written
\* document means nothing raised, the autofix (if on) and the families ran
AbortBeforeOutput(families) ==
    /\ Raised => pc = "done" /\ result = "False" /\ output = None
    /\ output # None
       => /\ ~Raised
          /\ config.autofix_broader => Completed("_apply_hierarchy_autofix")
          /\ config.enable_validation => \A f \in families : Completed(f)

\* C14 as stated: an exception of the autofix or of a validation family ends
\* the run with False and without output, and the document is written only
\* after the autofix and every enabled family (SKOS-XL when its flag is
\* set) completed
C14_AbortBeforeOutput ==
    AbortBeforeOutput(CoreFamilies
                      \cup (IF config.enable_skos_xl THEN { "_validate_skos_xl_labels" }
                            ELSE { }))

\* C14 amended: the same, where the SKOS-XL family counts as enabled only in
\* the standard branch; chunked validation never calls it
C14_AbortBeforeOutputOfBranch ==
    AbortBeforeOutput(CoreFamilies
                      \cup (IF config.enable_skos_xl /\ ~UseChunks(cleaned_concepts)
                            THEN { "_validate_skos_xl_labels" } ELSE { }))

\* C14 happens: a family raised after another one had completed
C14_Witness ==
    /\ pc = "done"
    /\ result = "False"
    /\ output = None
    /\ \E i, j \in 1..Len(calls) : i < j /\ calls[i].completed /\ ~calls[j].completed

\* C15: once the document has been read and its concepts extracted, the run
\* reaches its end, and unless a call raised an exception it returns True
\* with the cleaned document written, whatever the validation found
C15_ValidationAdvisory ==
    [](pc = "extracted"
       => <>(pc = "done" /\ (Raised \/ (result = "True" /\ output # None))))

\* C15 happens: a run with violations and warnings returned True with its output
C15_Witness ==
    /\ pc = "done"
    /\ ~Raised
    /\ result = "True"
    /\ output # None
    /\ report.violations # << >>
    /\ report.warnings # << >>

\* C17: from the end of the autofix phase on, no step of the run changes
\* the concept list or a concept record, the configuration or the document
\* metadata; counters, change log, finding lists and locals may change
C17_ReadOnlyConsumers ==
    [][(pc \in { "autofixed", "validated", "written" })
       => (/\ cleaned_concepts' = cleaned_concepts
           /\ concepts' = concepts
           /\ UNCHANGED << config, content, base_declaration, concept_scheme, base_uri,
                           processed_chunks >>)]_vars

\* C17 happens: validation and serializer ran on a list and produced findings
C17_Witness ==
    /\ pc = "written"
    /\ Len(cleaned_concepts) > 1
    /\ validation_violations # << >>
    /\ output # None

\* a string without surrounding whitespace and trailing punctuation
Bare(x) == Strip(RStripSet(x, { " ", ";", ".", "," }))

\* the entries of other_properties that are not blank, bare, in their order
OpaqueEntries(concept) ==
    LET props == concept.other_properties
        keep == Ordered({ i \in 1..Len(props) : Bare(props[i]) # << >> }, TRUE)
    IN [n \in 1..Len(keep) |-> Bare(props[keep[n]])]

\* number of lines of the block of a concept: the subject line, one line per
\* text entry, one line per opaque entry
BlockLen(concept) ==
    1 + SumSeq([f \in 1..Len(FieldTable) |-> Len(concept[FieldTable[f].field])])
      + Len(OpaqueEntries(concept))

\* index in the document of the last line of the block of concept k: every
\* block is followed by one empty line
BlockEnd(doc, list, k) ==
    Len(doc) - 1 - SumSeq([j \in 1..(Len(list) - k) |-> BlockLen(list[k + j]) + 1])

\* C16: in the written document, the block of every concept ends with one
\* line per non-blank other_properties entry, in the order of the entries,
\* each line being the entry up to surrounding whitespace and trailing
\* punctuation
C16_OpaqueRoundTrip ==
    pc = "written"
    => \A k \in 1..Len(cleaned_concepts) :
          LET entries == OpaqueEntries(cleaned_concepts[k])
              last == BlockEnd(output, cleaned_concepts, k)
          IN /\ last - BlockLen(cleaned_concepts[k]) >= 0
             /\ \A n \in 1..Len(entries) :
                   Bare(output[last - Len(entries) + n]) = entries[n]

\* C16 happens: a concept with two different opaque entries, one of them
\* appended by the autofix, was written
C16_Witness ==
    /\ pc = "written"
    /\ config.autofix_broader
    /\ \E i \in 1..Len(change_log) : change_log[i].kind = "Autofix"
    /\ \E k \in 1..Len(cleaned_concepts) :
          /\ Len(OpaqueEntries(cleaned_concepts[k])) >= 2
          /\ OpaqueEntries(cleaned_concepts[k])[1] # OpaqueEntries(cleaned_concepts[k])[2]

\* the 'Inconsistent hierarchy' violation the rule asks for concept c of
\* the list: a candidate prefix of its code exists as a concept and none of
\* its own skos:broader targets has a code among the existing candidates
OwesBroader(list, c) ==
    LET code == extract_numeric_code(c.uri)
        candidates == IF code = None THEN << >> ELSE ExistingPrefixes(list, code)
    IN candidates # << >> /\ OwnBroaderCodes(c) \cap Range(candidates) = {}

\* C18: after validation, every concept of the list whose URI carries a
\* code has an 'Inconsistent hierarchy' violation naming it exactly when a
\* candidate prefix of its code exists as a concept and none of its own
\* skos:broader targets has a code among the existing candidates, also when
\* another concept with a different URI carries the same code
C18_HierarchyConsistencyRule ==
    pc = "validated" /\ config.enable_validation
    => \A k \in 1..Len(cleaned_concepts) :
          extract_numeric_code(cleaned_concepts[k].uri) # None
          => ((\E v \in Range(returned.violations) :
                  /\ v.kind = "Inconsistent hierarchy"
                  /\ v.subject = cleaned_concepts[k].uri)
              <=> OwesBroader(cleaned_concepts, cleaned_concepts[k]))

GlobalFamilyNames == { "_validate_hierarchy_gaps", "_validate_scheme_consistency" }

ChunkFamilyNames ==
    { "_validate_skos_integrity", "_validate_semantic_relations",
      "_validate_datatypes_and_uris" }

\* the positions in calls of the calls of the functions of the set
CallsOf(names) == { i \in 1..Len(calls) : calls[i].function \in names }

\* number of chunks of a list of n concepts
ChunkCount(n) == (n + config.chunk_size - 1) \div config.chunk_size

\* C19: in a run with chunked validation, every call of the hierarchy-gap
\* and of the scheme-consistency family is on the full concept list and
\* follows the three per-chunk calls of every chunk, neither family is
\* called twice, and a validation that returned has called each exactly once
C19_GlobalFamiliesOnce ==
    config.enable_validation /\ UseChunks(cleaned_concepts)
    /\ pc \in { "validated", "written", "done" }
    => /\ \A i \in CallsOf(GlobalFamilyNames) :
             /\ calls[i].whole
             /\ calls[i].size = Len(cleaned_concepts)
             /\ CallsOf(ChunkFamilyNames) \subseteq 1..(i - 1)
             /\ Cardinality(CallsOf(ChunkFamilyNames))
                  = 3 * ChunkCount(Len(cleaned_concepts))
       /\ \A i \in CallsOf(ChunkFamilyNames) :
             ~calls[i].whole /\ calls[i].size <= config.chunk_size
       /\ \A f \in GlobalFamilyNames :
             /\ Cardinality(CallsOf({ f })) <= 1
             /\ ~Raised /\ result # "False" => Cardinality(CallsOf({ f })) = 1

\* C19 happens: a chunked validation of two chunks or more has returned
C19_Witness ==
    /\ pc = "validated"
    /\ config.enable_validation
    /\ UseChunks(cleaned_concepts)
    /\ ChunkCount(Len(cleaned_concepts)) >= 2
    /\ Cardinality(CallsOf(GlobalFamilyNames)) = 2

\* the messages of the change log that begin with 'URI fixed'
UriFixedKinds == { "URI fixed: expanded prefix", "URI fixed: added default namespace" }

\* number of entries of the change log whose kind is in the set
LogCount(kinds) == Cardinality({ i \in 1..Len(change_log) : change_log[i].kind \in kinds })

FooBarOnly(c) ==
    /\ c.prefLabels = << [text |-> << "Foo", ",", "Bar" >>, lang |-> "en"] >>
    /\ \A f \in 2..Len(FieldTable) : c[FieldTable[f].field] = << >>

\* skos:prefLabel "Foo, Bar"@en
FooBarFixed ==
    << "skos", ":", "prefLabel", " ", "\"", "Foo", ",", " ", "Bar", "\"", "@", "en" >>

\* C21: a document whose only concept has the single preferred label
\* "Foo,Bar"@en is written with the line skos:prefLabel "Foo, Bar"@en, and
\* writing it raises comma_fixes by exactly one
C21_CommaSpacingScenario ==
    [][pc = "validated" /\ pc' = "written"
       /\ Len(cleaned_concepts) = 1 /\ FooBarOnly(cleaned_concepts[1])
       => /\ stats'["comma_fixes"] = stats["comma_fixes"] + 1
          /\ Cardinality({ i \in 1..Len(output') : Bare(output'[i]) = FooBarFixed }) = 1
          /\ LogCount({ "Comma spacing fixed" })' = LogCount({ "Comma spacing fixed" }) + 1]_vars

\* C21 happens: the document with "Foo,Bar"@en was written with one fix
C21_Witness ==
    /\ pc = "written"
    /\ Len(cleaned_concepts) = 1
    /\ FooBarOnly(cleaned_concepts[1])
    /\ stats["comma_fixes"] = 1
    /\ \E i \in 1..Len(output) : Bare(output[i]) = FooBarFixed

\* the lines of the document, stripped, without the blank ones and the
\* full-line comments
KeptLines(lines) ==
    LET keep == Ordered({ i \in 1..Len(lines) :
                            Strip(lines[i]) # << >> /\ ~IsComment(Strip(lines[i])) }, TRUE)
    IN [n \in 1..Len(keep) |-> Strip(lines[keep[n]])]

\* the positions of the concept-start lines, in input order
StartLines(kept) == Ordered({ i \in 1..Len(kept) : ConceptStart(kept[i]) > 0 }, TRUE)

\* the last line of the block that starts at line s: the first lone '.'
\* after s, unless a concept-start line or the end of the input comes first
LastLineOf(kept, s) ==
    LET stops == { j \in (s + 1)..Len(kept) : ConceptStart(kept[j]) > 0 }
        limit == IF stops = {} THEN Len(kept) ELSE First(stops) - 1
        dots == { j \in (s + 1)..limit : kept[j] = << "." >> }
    IN IF dots = {} THEN limit ELSE First(dots)

\* one block per concept-start line
SegmentsOf(lines) ==
    LET kept == KeptLines(lines)
        starts == StartLines(kept)
    IN [n \in 1..Len(starts) |-> SubSeq(kept, starts[n], LastLineOf(kept, starts[n]))]

\* C22: the segmenter gives one block per concept-start line of the kept
\* lines, in input order, each from its start line to the first lone '.'
\* (included), the line before the next start line or the end of the input,
\* and total_concepts is the number of blocks
C22_SegmenterBlocks ==
    pc = "extracted"
    => /\ split_into_concept_blocks(content) = SegmentsOf(content)
       /\ stats["total_concepts"] = Len(SegmentsOf(content))

\* C22 happens: a block closed by a lone '.', a line that belongs to no
\* block, and a last block without terminator
C22_Witness ==
    /\ pc = "extracted"
    /\ LET kept == KeptLines(content)
           blocks == split_into_concept_blocks(content)
       IN /\ Len(blocks) = 2
          /\ Last(blocks[1]) = << "." >>
          /\ Len(blocks[1]) + Len(blocks[2]) < Len(kept)
          /\ Last(blocks[2]) # << "." >>
          /\ stats["total_concepts"] = 2

\* C23: no concept the parser returns has the same (text, lang) pair twice
\* in prefLabels or twice in altLabels, also when the block states the label
\* in two statements
C23_NoDuplicateLabelPairs ==
    pc = "extracted"
    => \A k \in 1..Len(concepts) :
          NoRepeats(concepts[k].prefLabels) /\ NoRepeats(concepts[k].altLabels)

\* the values of the comma-joined lists of predicate k in the text of a
\* block, normalized, as entries of the concept record
ListedEntries(s, k) ==
    LET items == FindMulti(s, TextPreds[k], 1)
        cleaned == [i \in 1..Len(items) |-> CleanItem(items[i], k <= Len(LabelPreds)).val]
    IN { [text |-> cleaned[i], lang |-> IF items[i].lang = "" THEN "en" ELSE items[i].lang] :
           i \in { j \in 1..Len(items) : cleaned[j] # None } }

\* C24: for each of the nine text predicates, every quoted value of a
\* comma-joined list of the block is an entry of the sequence of that
\* predicate in the concept record
C24_MultiObjectExtraction ==
    pc = "extracted"
    => LET blocks == split_into_concept_blocks(content)
           kept == KeptBlocks(blocks)
       IN \A n \in 1..Len(kept) :
             \A k \in 1..Len(TextPreds) :
                ListedEntries(Content(blocks[kept[n]]), k)
                  \subseteq Range(concepts[n][FieldTable[k].field])

\* the identifier as written is relative: no http scheme and no ':'
RelativeToken(raw) ==
    LET inner == Unbracket(Strip(raw)) IN
    /\ ~(inner # << >> /\ inner[1] \in { "http", "https" })
    /\ ~Contains(inner, ":")

\* the subject token _format_concept writes for a URI
Reemitted(uri, base) ==
    IF base # None /\ StartsWith(uri, base)
    THEN << "<" >> \o SubSeq(uri, Len(base) + 1, Len(uri)) \o << ">" >>
    ELSE uri

\* C25: with a base URI, a relative identifier whose concept carries no
\* issue marker is written back as the token that was read; a relative
\* identifier that is written back as another token is marked 'URI
\* normalized', and uri_normalizations counts every such block
C25_NoOpSuppressionSound ==
    [][pc = "read" /\ pc' = "extracted" /\ base_uri' # None
       => LET blocks == split_into_concept_blocks(content)
              kept == KeptBlocks(blocks)
              changed == { k \in 1..Len(blocks) :
                             /\ RawUri(blocks[k]) # None
                             /\ RelativeToken(RawUri(blocks[k]))
                             /\ Reemitted(clean_uri(RawUri(blocks[k]), base_uri'), base_uri')
                                  # RawUri(blocks[k]) }
          IN /\ \A n \in 1..Len(kept) :
                   kept[n] \in changed => "URI normalized" \in Range(concepts'[n].issues)
             /\ stats'["uri_normalizations"] >= stats["uri_normalizations"]
                                                  + Cardinality(changed)]_vars

\* two lists hold the same entries the same number of times
SameMultiset(a, b) == \A x \in Range(a) \cup Range(b) : Count(a, x) = Count(b, x)

\* families 1, 2, 3, 5 and 6, each run once over the full list
OncePerFamily(list) == LocalThenGlobal(LocalFamilies(list), GlobalFamilies(list))

Appended(before, after) ==
    SumSeq([i \in 1..Len(before) |->
              Len(after[i].other_properties) - Len(before[i].other_properties)])

\* C27: the autofix keeps the number and order of the concepts; a concept
\* differs afterwards at most by one entry appended to other_properties, a
\* concept without a code token does not differ at all, and the returned
\* count is the number of appended entries and of new 'Autofix' log entries
C27_AutofixFrame ==
    [][pc = "cleaned" /\ pc' = "autofixed" /\ config.autofix_broader
       => (/\ Len(cleaned_concepts') = Len(cleaned_concepts)
           /\ \A i \in 1..Len(cleaned_concepts) :
                 LET c == cleaned_concepts[i]
                     d == cleaned_concepts'[i]
                 IN /\ [d EXCEPT !.other_properties = c.other_properties] = c
                    /\ Len(d.other_properties) \in { Len(c.other_properties),
                                                     Len(c.other_properties) + 1 }
                    /\ SubSeq(d.other_properties, 1, Len(c.other_properties))
                         = c.other_properties
                    /\ extract_numeric_code(c.uri) = None => d = c
           /\ apply_hierarchy_autofix(cleaned_concepts).added
                = Appended(cleaned_concepts, cleaned_concepts')
           /\ Len(change_log') = Len(change_log)
                                 + apply_hierarchy_autofix(cleaned_concepts).added
           /\ \A k \in (Len(change_log) + 1)..Len(change_log') :
                 change_log'[k].kind = "Autofix"
           /\ SubSeq(change_log', 1, Len(change_log)) = change_log)]_vars

\* the autofix appended a link to one concept of a list that also holds a
\* concept without a code token and a coded concept it left alone
C27_Witness ==
    /\ pc = "autofixed"
    /\ config.autofix_broader
    /\ LogCount({ "Autofix" }) >= 1
    /\ \E i \in 1..Len(cleaned_concepts) : extract_numeric_code(cleaned_concepts[i].uri) = None
    /\ \E i \in 1..Len(cleaned_concepts) :
          /\ extract_numeric_code(cleaned_concepts[i].uri) # None
          /\ cleaned_concepts[i].other_properties = << >>

\* C28: when the cleaning phase of the first run on a cleaner object ends,
\* total_concepts is the number of concepts kept plus duplicates_removed
\* plus concepts_without_preflabel, and every block of the document has an
\* identifier, so that a block is missing from the extracted list only for
\* want of a prefLabel
C28_ConceptAccounting ==
    runs = 1 /\ pc = "cleaned"
    => LET blocks == split_into_concept_blocks(content)
       IN /\ stats["total_concepts"] = Len(blocks)
          /\ stats["total_concepts"] = Len(cleaned_concepts) + stats["duplicates_removed"]
                                       + stats["concepts_without_preflabel"]
          /\ \A k \in 1..Len(blocks) : RawUri(blocks[k]) # None
          /\ Len(concepts) = Len(blocks) - Cardinality(Unlabelled(blocks))
          /\ stats["concepts_without_preflabel"] = Cardinality(Unlabelled(blocks))

\* a first run dropped a duplicate and a block without prefLabel and kept a concept
C28_Witness ==
    /\ runs = 1
    /\ pc = "cleaned"
    /\ stats["duplicates_removed"] >= 1
    /\ stats["concepts_without_preflabel"] >= 1
    /\ Len(cleaned_concepts) >= 1

\* C29: applied to the list it has just processed, the autofix appends
\* nothing, returns 0 and logs nothing
C29_AutofixIdempotent ==
    [][pc = "cleaned" /\ pc' = "autofixed" /\ config.autofix_broader
       => apply_hierarchy_autofix(cleaned_concepts')
            = [val |-> cleaned_concepts', added |-> 0, log |-> << >>]]_vars

\* the autofix has appended two links to the list, one of them to a concept
\* whose identifier ends with a space
C29_Witness ==
    /\ pc = "autofixed"
    /\ config.autofix_broader
    /\ LogCount({ "Autofix" }) >= 2
    /\ \E i \in 1..Len(change_log) :
          /\ change_log[i].kind = "Autofix"
          /\ Last(change_log[i].subject) = " "

\* (source uri, target uri) for every entry the step appended
AddedLinks(before, after) ==
    { << before[i].uri,
         SubSeq(Last(after[i].other_properties), Len(BroaderKey) + 2,
                Len(Last(after[i].other_properties)) - 1) >> :
        i \in { k \in 1..Len(before) :
                  Len(after[k].other_properties) > Len(before[k].other_properties) } }

\* the nodes reached from S along at most n links of R
RECURSIVE Reach(_, _, _)
Reach(R, S, n) ==
    IF n = 0 THEN S
    ELSE Reach(R, S \cup { r[2] : r \in { q \in R : q[1] \in S } }, n - 1)

Acyclic(R) == \A r \in R : r[1] \notin Reach(R, { r[2] }, Cardinality(R))

\* C30: every entry the autofix appends is 'skos:broader <T>' with T the
\* URI of a concept of the list whose code is one of the prefixes of the
\* source's code and shorter than it; no appended link leads from a URI to
\* itself and the appended links form no cycle
C30_AutofixWellFounded ==
    [][pc = "cleaned" /\ pc' = "autofixed" /\ config.autofix_broader
       => LET links == AddedLinks(cleaned_concepts, cleaned_concepts')
          IN /\ \A i \in 1..Len(cleaned_concepts) :
                   Len(cleaned_concepts'[i].other_properties)
                     > Len(cleaned_concepts[i].other_properties)
                   => StartsWith(Last(cleaned_concepts'[i].other_properties),
                                 BroaderKey \o << "<" >>)
             /\ \A l \in links :
                   /\ l[1] # l[2]
                   /\ \E j \in 1..Len(cleaned_concepts) :
                         /\ cleaned_concepts[j].uri = l[2]
                         /\ extract_numeric_code(l[2])
                              \in Range(code_prefixes(extract_numeric_code(l[1])))
                         /\ Len(extract_numeric_code(l[2])) < Len(extract_numeric_code(l[1]))
             /\ Acyclic(links)]_vars

\* the autofix appended a chain of two links: a concept got a link to a
\* concept that got a link itself
C30_Witness ==
    /\ pc = "autofixed"
    /\ config.autofix_broader
    /\ \E i, j \in 1..Len(cleaned_concepts) :
          /\ i # j
          /\ cleaned_concepts[i].other_properties
               = << BroaderKey \o Ref(cleaned_concepts[j].uri) >>
          /\ Len(cleaned_concepts[j].other_properties) = 1
          /\ \E k \in 1..Len(change_log) :
                change_log[k] = LogEntry("Autofix", cleaned_concepts[i].uri)
          /\ \E k \in 1..Len(change_log) :
                change_log[k] = LogEntry("Autofix", cleaned_concepts[j].uri)

====
